---- MODULE Spec2Model ----
(***************************************************************************)
(* py_load_epar: the load/merge engine.                                    *)
(*                                                                         *)
(* The model has three layers, each translated from the source:            *)
(*   - the PostgreSQL adapter (db/postgres.py) as operators over an        *)
(*     adapter state [cm, wk, txn, conn]: the committed snapshot of the    *)
(*     database, the snapshot the connection sees inside its transaction,  *)
(*     the transaction status and the connection status;                   *)
(*   - the collaborators extract_data and transform_and_validate as        *)
(*     operators over one raw source row;                                  *)
(*   - run_etl (etl/orchestrator.py) as a state machine over the adapter   *)
(*     state and the locals of the run.                                    *)
(***************************************************************************)
EXTENDS Integers, Sequences, FiniteSets, TLC

(***************************************************************************)
(* Bounds of the model.                                                    *)
(***************************************************************************)
MaxDate == 2
\* revision dates are 1..MaxDate
MaxSrc == 2
\* raw rows the source file of one run holds
MaxLedger == 2
\* rows of the ledger when the ledger is driven on its own
MaxLinks == 2
\* link records one call of _process_substance_links is handed
MaxPageLinks == 2
\* links the summary page of one record holds
MaxItems == 3
\* items the iterator handed to _batch_iterator yields
MaxRows == 2
\* raw records the iterator handed to transform_and_validate yields

Dates == 1 .. MaxDate
EparIds == {"A", "B"}
BatchSizes == {1, 2}
Strategies == {"FULL", "DELTA"}
\* a load_strategy setting that is neither
UnknownStrategy == "UPSERT"

Tables == {"epar_index", "organizations", "substances",
           "epar_substance_link", "epar_documents"}

(***************************************************************************)
(* Values: None, datetime.date and datetime.datetime.  The ledger column   *)
(* high_water_mark is a timestamp; the records carry dates.                *)
(***************************************************************************)
None == [kind |-> "none", d |-> 0, t |-> 0]
date(d) == [kind |-> "date", d |-> d, t |-> 0]
datetime(d, t) == [kind |-> "datetime", d |-> d, t |-> t]

Count(n) == [kind |-> "int", d |-> n, t |-> 0]

\* datetime.datetime.date()
date_of(x) == date(x.d)

\* the value a timestamp column stores for a Python date or datetime
to_timestamp(x) == IF x.kind = "date" THEN datetime(x.d, 0) ELSE x

\* x > y on two dates or two datetimes
later(x, y) == x.d > y.d \/ (x.d = y.d /\ x.t > y.t)

(***************************************************************************)
(* Pydantic models: the columns of each table (model_fields.keys()).       *)
(***************************************************************************)
model_fields(t) ==
    CASE t = "epar_index" ->
           {"epar_id", "last_update_date_source", "is_active", "mah_oms_id"}
      [] t = "organizations" -> {"oms_id", "organization_name"}
      [] t = "substances" -> {"spor_substance_id", "substance_name"}
      [] t = "epar_substance_link" -> {"epar_id", "spor_substance_id"}
      [] t = "epar_documents" -> {"document_id", "epar_id"}

EparIndex(id, d, active, org) ==
    [epar_id |-> id, last_update_date_source |-> d,
     is_active |-> active, mah_oms_id |-> org]
Organization(o) == [oms_id |-> o, organization_name |-> o]
Substance(s) == [spor_substance_id |-> s, substance_name |-> s]
EparSubstanceLink(id, s) == [epar_id |-> id, spor_substance_id |-> s]
EparDocument(doc, id) == [document_id |-> doc, epar_id |-> id]

\* the key of a row: its projection on the key columns
KeyOf(row, pk) == [c \in pk |-> row[c]]

Range(s) == {s[i] : i \in 1 .. Len(s)}

(***************************************************************************)
(* The database.  A snapshot holds the rows of every table, the staging    *)
(* relations and the ledger pipeline_execution (execution_id = position).  *)
(***************************************************************************)
NoStaging == [exists |-> FALSE, rows |-> <<>>]

EmptyDb ==
    [tbl |-> [t \in Tables |-> {}],
     stg |-> [t \in Tables |-> NoStaging],
     pipeline_execution |-> <<>>]

\* a load destination: the target itself (FULL) or staging_<target> (DELTA)
TargetOf(t) == [staging |-> FALSE, of |-> t]
StagingOf(t) == [staging |-> TRUE, of |-> t]

\* the outcome of an adapter call: the new adapter state, the exception it
\* raised ("none" when it returned) and the value it returned
Outcome(a, err, ret) == [a |-> a, err |-> err, ret |-> ret]

\* conn.commit(): COMMIT of a failed transaction is a ROLLBACK
Commit(a) ==
    IF a.txn = "aborted"
    THEN [a EXCEPT !.wk = a.cm, !.txn = "idle"]
    ELSE [a EXCEPT !.cm = a.wk, !.txn = "idle"]

\* a statement that fails inside the transaction
Abort(a) == [a EXCEPT !.txn = "aborted"]

\* self.conn is "none" before the first connect, then "open" or "closed"
connect(a) ==
    IF a.conn = "open" THEN a
    ELSE [a EXCEPT !.conn = "open", !.wk = a.cm, !.txn = "idle"]

\* rollback does nothing without a connection object; on a connection
\* that is closed conn.rollback() raises and changes nothing
rollback(a) ==
    IF a.conn = "open" THEN [a EXCEPT !.wk = a.cm, !.txn = "idle"] ELSE a

\* the exception rollback raises
rollback_error(a) ==
    IF a.conn = "closed" THEN "psycopg2.InterfaceError" ELSE "none"

close(a) ==
    IF a.conn = "open"
    THEN [a EXCEPT !.conn = "closed", !.wk = a.cm, !.txn = "idle"]
    ELSE a

(***************************************************************************)
(* Schema: the tables that hold a foreign key to a table, which TRUNCATE   *)
(* ... CASCADE empties with it.                                            *)
(***************************************************************************)
Referencing(t) ==
    CASE t = "epar_index" -> {"epar_substance_link", "epar_documents"}
      [] t = "organizations" ->
           {"epar_index", "epar_substance_link", "epar_documents"}
      [] t = "substances" -> {"epar_substance_link"}
      [] OTHER -> {}

(***************************************************************************)
(* PostgresAdapter.prepare_load.  inject: the backend fails the statement. *)
(***************************************************************************)
\* prepare_load whose DELTA branch creates the staging table only when
\* there is none
prepare_load_keeping_staging(a, load_strategy, target_table, inject) ==
    IF load_strategy = "FULL"
    THEN IF a.txn = "aborted" \/ inject
         THEN Outcome(Abort(a), "psycopg2.Error", None)
         ELSE Outcome(
                [a EXCEPT !.txn = "open",
                          !.wk.tbl = [t \in Tables |->
                              IF t = target_table \/ t \in Referencing(target_table)
                              THEN {} ELSE a.wk.tbl[t]]],
                "none", TargetOf(target_table))
    ELSE IF load_strategy = "DELTA"
    THEN IF a.txn = "aborted" \/ inject
         THEN Outcome(Abort(a), "psycopg2.Error", None)
         ELSE Outcome(
                [a EXCEPT !.txn = "open",
                          !.wk.stg[target_table] =
                              IF a.wk.stg[target_table].exists
                              THEN a.wk.stg[target_table]
                              ELSE [exists |-> TRUE, rows |-> <<>>]],
                "none", StagingOf(target_table))
    ELSE Outcome(a, "ValueError", None)

\* prepare_load whose FULL branch leaves the tables as they are
prepare_load_without_truncate(a, load_strategy, target_table, inject) ==
    IF load_strategy = "FULL"
    THEN IF a.txn = "aborted" \/ inject
         THEN Outcome(Abort(a), "psycopg2.Error", None)
         ELSE Outcome([a EXCEPT !.txn = "open"], "none", TargetOf(target_table))
    ELSE IF load_strategy = "DELTA"
    THEN IF a.txn = "aborted" \/ inject
         THEN Outcome(Abort(a), "psycopg2.Error", None)
         ELSE Outcome(
                [a EXCEPT !.txn = "open",
                          !.wk.stg[target_table] = [exists |-> TRUE, rows |-> <<>>]],
                "none", StagingOf(target_table))
    ELSE Outcome(a, "ValueError", None)

prepare_load(a, load_strategy, target_table, inject) ==
    IF load_strategy = "FULL"
    THEN IF a.txn = "aborted" \/ inject
         THEN Outcome(Abort(a), "psycopg2.Error", None)
         ELSE Outcome(
                [a EXCEPT !.txn = "open",
                          !.wk.tbl = [t \in Tables |->
                              IF t = target_table \/ t \in Referencing(target_table)
                              THEN {} ELSE a.wk.tbl[t]]],
                "none", TargetOf(target_table))
    ELSE IF load_strategy = "DELTA"
    THEN IF a.txn = "aborted" \/ inject
         THEN Outcome(Abort(a), "psycopg2.Error", None)
         ELSE Outcome(
                [a EXCEPT !.txn = "open",
                          !.wk.stg[target_table] = [exists |-> TRUE, rows |-> <<>>]],
                "none", StagingOf(target_table))
    ELSE Outcome(a, "ValueError", None)

(***************************************************************************)
(* PostgresAdapter.bulk_load_batch: COPY rows INTO the destination.  A     *)
(* psycopg2.Error is caught, the adapter rolls back and re-raises.         *)
(***************************************************************************)
HasDuplicateKey(rows, pk) ==
    \E i, j \in 1 .. Len(rows) : i < j /\ KeyOf(rows[i], pk) = KeyOf(rows[j], pk)

\* the primary key of each table in the schema
PrimaryKey(t) ==
    CASE t = "epar_index" -> {"epar_id"}
      [] t = "organizations" -> {"oms_id"}
      [] t = "substances" -> {"spor_substance_id"}
      [] t = "epar_substance_link" -> {"epar_id", "spor_substance_id"}
      [] t = "epar_documents" -> {"document_id"}

\* COPY fails: on a failed transaction, a missing relation, a key that is
\* already in the table or twice in the input
CopyFails(a, rows, dest) ==
    \/ a.txn = "aborted"
    \/ dest.staging /\ ~a.wk.stg[dest.of].exists
    \/ ~dest.staging /\
         \/ HasDuplicateKey(rows, PrimaryKey(dest.of))
         \/ \E i \in 1 .. Len(rows) : \E r \in a.wk.tbl[dest.of] :
                KeyOf(r, PrimaryKey(dest.of)) = KeyOf(rows[i], PrimaryKey(dest.of))

\* bulk_load_batch on a cursor whose rowcount is -1 after the COPY
bulk_load_batch_unknown_rowcount(a, rows, dest, inject) ==
    IF CopyFails(a, rows, dest) \/ inject
    THEN Outcome(rollback(Abort(a)), "psycopg2.Error", 0)
    ELSE IF dest.staging
    THEN Outcome(
           [a EXCEPT !.txn = "open",
                     !.wk.stg[dest.of].rows = a.wk.stg[dest.of].rows \o rows],
           "none", 0)
    ELSE Outcome(
           [a EXCEPT !.txn = "open",
                     !.wk.tbl[dest.of] = a.wk.tbl[dest.of] \cup Range(rows)],
           "none", 0)

bulk_load_batch(a, rows, dest, inject) ==
    IF CopyFails(a, rows, dest) \/ inject
    THEN Outcome(rollback(Abort(a)), "psycopg2.Error", 0)
    ELSE IF dest.staging
    THEN Outcome(
           [a EXCEPT !.txn = "open",
                     !.wk.stg[dest.of].rows = a.wk.stg[dest.of].rows \o rows],
           "none", Len(rows))
    ELSE Outcome(
           [a EXCEPT !.txn = "open",
                     !.wk.tbl[dest.of] = a.wk.tbl[dest.of] \cup Range(rows)],
           "none", Len(rows))

(***************************************************************************)
(* PostgresAdapter._perform_soft_delete.  settings is a function from the  *)
(* keys that were supplied to their values.                                *)
(***************************************************************************)
SoftDeleteComplete(settings) ==
    {"column", "inactive_value", "active_value"} \subseteq DOMAIN settings

\* the UPDATE without its NOT EXISTS clause
perform_soft_delete_everywhere(target_rows, staged, pk, settings) ==
    IF ~SoftDeleteComplete(settings)
    THEN target_rows
    ELSE {IF r[settings["column"]] = settings["active_value"]
          THEN [r EXCEPT ![settings["column"]] = settings["inactive_value"]]
          ELSE r : r \in target_rows}

perform_soft_delete(target_rows, staged, pk, settings) ==
    IF ~SoftDeleteComplete(settings)
    THEN target_rows
    ELSE {IF r[settings["column"]] = settings["active_value"]
             /\ ~\E i \in 1 .. Len(staged) : KeyOf(staged[i], pk) = KeyOf(r, pk)
          THEN [r EXCEPT ![settings["column"]] = settings["inactive_value"]]
          ELSE r : r \in target_rows}

(***************************************************************************)
(* The merge statement of finalize: INSERT ... SELECT FROM staging ON      *)
(* CONFLICT (pk) DO UPDATE SET every non-key column, or DO NOTHING when    *)
(* there is no non-key column.                                             *)
(***************************************************************************)
\* update_cols that keeps the key columns, so that the merge is always a
\* DO UPDATE
update_cols_with_key(columns, pk) == columns

update_cols(columns, pk) == columns \ pk

\* a DO UPDATE that writes no column
Upsert_nothing(old, s, columns, pk) == old

Upsert(old, s, columns, pk) ==
    [c \in columns |-> IF c \in pk THEN old[c] ELSE s[c]]

\* a merge that leaves the staged rows alone in the table
merge_replacing(target_rows, staged, columns, pk) == Range(staged)

merge(target_rows, staged, columns, pk) ==
    IF update_cols(columns, pk) = {}
    THEN target_rows \cup
           {r \in Range(staged) :
              ~\E o \in target_rows : KeyOf(o, pk) = KeyOf(r, pk)}
    ELSE {o \in target_rows :
              ~\E i \in 1 .. Len(staged) : KeyOf(staged[i], pk) = KeyOf(o, pk)}
         \cup
         {IF \E o \in target_rows : KeyOf(o, pk) = KeyOf(r, pk)
          THEN Upsert(CHOOSE o \in target_rows : KeyOf(o, pk) = KeyOf(r, pk),
                      r, columns, pk)
          ELSE r : r \in Range(staged)}

\* the failures of an INSERT ... SELECT without its ON CONFLICT clause
MergeFails_without_on_conflict(a, target_table, staged, columns, pk) ==
    \/ a.txn = "aborted"
    \/ ~a.wk.stg[target_table].exists
    \/ HasDuplicateKey(staged, pk)
    \/ \E i \in 1 .. Len(staged) : \E o \in a.wk.tbl[target_table] :
          KeyOf(o, pk) = KeyOf(staged[i], pk)

\* the merge statement fails: on a failed transaction, a missing staging
\* relation, or when DO UPDATE would affect a row a second time
MergeFails(a, target_table, staged, columns, pk) ==
    \/ a.txn = "aborted"
    \/ ~a.wk.stg[target_table].exists
    \/ update_cols(columns, pk) # {} /\ HasDuplicateKey(staged, pk)

(***************************************************************************)
(* PostgresAdapter.finalize.  args: the optional arguments that were       *)
(* passed (staging_table, pydantic_model, primary_key_columns); pk: the    *)
(* key columns; settings: soft_delete_settings.                            *)
(***************************************************************************)
\* finalize without the check of its optional arguments
finalize_unchecked(a, load_strategy, target_table, args, pk, settings, inject) ==
    IF load_strategy = "DELTA"
    THEN LET staged == a.wk.stg[target_table].rows
             columns == model_fields(target_table)
         IN  IF MergeFails(a, target_table, staged, columns, pk) \/ inject
             THEN Outcome(Abort(a), "psycopg2.Error", None)
             ELSE Outcome(
                    Commit([a EXCEPT
                        !.txn = "open",
                        !.wk.tbl[target_table] =
                            merge(a.wk.tbl[target_table], staged, columns, pk),
                        !.wk.stg[target_table] = NoStaging]),
                    "none", None)
    ELSE IF inject
         THEN Outcome(rollback(a), "psycopg2.Error", None)
         ELSE Outcome(Commit(a), "none", None)

finalize(a, load_strategy, target_table, args, pk, settings, inject) ==
    IF load_strategy = "DELTA"
    THEN IF ~({"staging_table", "pydantic_model", "primary_key_columns"}
                \subseteq args) \/ pk = {}
         THEN Outcome(a, "ValueError", None)
         ELSE LET staged == a.wk.stg[target_table].rows
                  columns == model_fields(target_table)
              IN  IF MergeFails(a, target_table, staged, columns, pk) \/ inject
                  THEN Outcome(Abort(a), "psycopg2.Error", None)
                  ELSE LET merged == merge(a.wk.tbl[target_table], staged,
                                           columns, pk)
                           final == IF DOMAIN settings # {}
                                    THEN perform_soft_delete(merged, staged,
                                                             pk, settings)
                                    ELSE merged
                       IN  Outcome(
                             Commit([a EXCEPT
                                 !.txn = "open",
                                 !.wk.tbl[target_table] = final,
                                 !.wk.stg[target_table] = NoStaging]),
                             "none", None)
    ELSE IF inject
         THEN Outcome(rollback(a), "psycopg2.Error", None)
         ELSE Outcome(Commit(a), "none", None)

(***************************************************************************)
(* The execution ledger.                                                   *)
(***************************************************************************)
LedgerRow(status, load_strategy, n, hwm, ended) ==
    [status |-> status, load_strategy |-> load_strategy,
     records_processed |-> n, high_water_mark |-> hwm, ended |-> ended]

\* MAX(col) over a set of timestamps, NULL over the empty set
MaxOf(S) ==
    IF S = {} THEN None
    ELSE CHOOSE x \in S : \A y \in S : ~later(y, x)

\* the query without its load_strategy filter
get_latest_high_water_mark_any_strategy(a) ==
    IF a.txn = "aborted"
    THEN Outcome(a, "psycopg2.Error", None)
    ELSE LET log == a.wk.pipeline_execution
             result == MaxOf({log[i].high_water_mark : i \in
                          {j \in 1 .. Len(log) :
                             /\ log[j].status = "SUCCESS"
                             /\ log[j].high_water_mark # None}})
         IN  Outcome([a EXCEPT !.txn = "open"], "none", result)

get_latest_high_water_mark(a) ==
    IF a.txn = "aborted"
    THEN Outcome(a, "psycopg2.Error", None)
    ELSE LET log == a.wk.pipeline_execution
             result == MaxOf({log[i].high_water_mark : i \in
                          {j \in 1 .. Len(log) :
                             /\ log[j].status = "SUCCESS"
                             /\ log[j].load_strategy = "DELTA"
                             /\ log[j].high_water_mark # None}})
         IN  Outcome([a EXCEPT !.txn = "open"], "none", result)

\* log_pipeline_start without its commit
log_pipeline_start_uncommitted(a, load_strategy) ==
    IF a.txn = "aborted"
    THEN Outcome(a, "psycopg2.Error", None)
    ELSE Outcome(
           [a EXCEPT !.txn = "open",
                     !.wk.pipeline_execution =
                         Append(a.wk.pipeline_execution,
                                LedgerRow("RUNNING", load_strategy,
                                          None, None, FALSE))],
           "none", Len(a.wk.pipeline_execution) + 1)

log_pipeline_start(a, load_strategy) ==
    IF a.txn = "aborted"
    THEN Outcome(a, "psycopg2.Error", None)
    ELSE Outcome(
           Commit([a EXCEPT !.txn = "open",
                            !.wk.pipeline_execution =
                                Append(a.wk.pipeline_execution,
                                       LedgerRow("RUNNING", load_strategy,
                                                 None, None, FALSE))]),
           "none", Len(a.wk.pipeline_execution) + 1)

log_pipeline_success(a, execution_id, records_processed, new_high_water_mark) ==
    IF a.txn = "aborted"
    THEN Outcome(a, "psycopg2.Error", None)
    ELSE Outcome(
           Commit([a EXCEPT !.txn = "open",
                            !.wk.pipeline_execution =
                                [i \in DOMAIN a.wk.pipeline_execution |->
                                    IF i = execution_id
                                    THEN [a.wk.pipeline_execution[i] EXCEPT
                                            !.status = "SUCCESS",
                                            !.ended = TRUE,
                                            !.records_processed =
                                                Count(records_processed),
                                            !.high_water_mark =
                                                to_timestamp(new_high_water_mark)]
                                    ELSE a.wk.pipeline_execution[i]]]),
           "none", None)

\* log_pipeline_failure whose UPDATE has no WHERE clause
log_pipeline_failure_every_row(a, execution_id) ==
    IF a.txn = "aborted"
    THEN Outcome(a, "psycopg2.Error", None)
    ELSE Outcome(
           Commit([a EXCEPT !.txn = "open",
                            !.wk.pipeline_execution =
                                [i \in DOMAIN a.wk.pipeline_execution |->
                                    [a.wk.pipeline_execution[i] EXCEPT
                                        !.status = "FAILED",
                                        !.ended = TRUE]]]),
           "none", None)

\* log_pipeline_failure that closes the row as a success with a
\* high-water-mark
log_pipeline_failure_as_success(a, execution_id) ==
    IF a.txn = "aborted"
    THEN Outcome(a, "psycopg2.Error", None)
    ELSE Outcome(
           Commit([a EXCEPT !.txn = "open",
                            !.wk.pipeline_execution =
                                [i \in DOMAIN a.wk.pipeline_execution |->
                                    IF i = execution_id
                                    THEN [a.wk.pipeline_execution[i] EXCEPT
                                            !.status = "SUCCESS",
                                            !.ended = TRUE,
                                            !.high_water_mark =
                                                datetime(MaxDate, 0)]
                                    ELSE a.wk.pipeline_execution[i]]]),
           "none", None)

log_pipeline_failure(a, execution_id) ==
    IF a.txn = "aborted"
    THEN Outcome(a, "psycopg2.Error", None)
    ELSE Outcome(
           Commit([a EXCEPT !.txn = "open",
                            !.wk.pipeline_execution =
                                [i \in DOMAIN a.wk.pipeline_execution |->
                                    IF i = execution_id
                                    THEN [a.wk.pipeline_execution[i] EXCEPT
                                            !.status = "FAILED",
                                            !.ended = TRUE]
                                    ELSE a.wk.pipeline_execution[i]]]),
           "none", None)

(***************************************************************************)
(* The collaborators, one raw source row at a time.  A raw row carries     *)
(* the product number, the revision date and its kind:                     *)
(*   "ok"   a valid, authorised medicine without enrichment;               *)
(*   "org"  a valid row whose holder and substance SPOR resolves;          *)
(*   "wd"   a valid row whose status says withdrawn or suspended;          *)
(*   "bad"  a row that fails validation.                                   *)
(***************************************************************************)
Kinds == {"ok", "org", "wd", "bad"}
RawRows == [product_number : EparIds, revision_date : Dates, kind : Kinds]

\* the raw rows the sources of the modelled runs are drawn from
RunKinds == {"ok", "org", "bad"}
RunRows == {r \in RawRows : r.kind \in RunKinds}

\* the CDC filter that lets a row dated as the cursor pass
extract_data_from_cursor_date(record, high_water_mark) ==
    IF high_water_mark # None
       /\ later(date_of(high_water_mark), date(record.revision_date))
    THEN <<>>
    ELSE <<record>>

\* extract_data: the CDC filter on one parsed row
extract_data(record, high_water_mark) ==
    IF high_water_mark # None
       /\ ~later(date(record.revision_date), date_of(high_water_mark))
    THEN <<>>
    ELSE <<record>>

\* transform_and_validate: the tuple a raw row yields, or nothing
transform_and_validate(raw_record) ==
    IF raw_record.kind = "bad"
    THEN <<>>
    ELSE <<[epar |-> EparIndex(raw_record.product_number,
                               date(raw_record.revision_date),
                               raw_record.kind # "wd",
                               IF raw_record.kind = "org" THEN "O1" ELSE "none"),
            substance_links |->
                IF raw_record.kind = "org"
                THEN <<EparSubstanceLink(raw_record.product_number, "S1")>>
                ELSE <<>>,
            organizations |->
                IF raw_record.kind = "org" THEN <<Organization("O1")>> ELSE <<>>,
            substances |->
                IF raw_record.kind = "org" THEN <<Substance("S1")>> ELSE <<>>]>>

(***************************************************************************)
(* Orchestrator helpers.                                                   *)
(***************************************************************************)
RECURSIVE Flatten(_)
\* [x for sublist in lists for x in sublist]
Flatten(lists) ==
    IF lists = <<>> THEN <<>> ELSE Head(lists) \o Flatten(Tail(lists))

RECURSIVE DedupBy(_, _)
\* {row[key]: row for row in rows}.values(): one row per key, in the order
\* the keys were first seen, each holding the last row seen for its key
DedupBy(rows, key) ==
    IF rows = <<>> THEN <<>>
    ELSE LET n == Len(rows)
             init == DedupBy(SubSeq(rows, 1, n - 1), key)
             last == rows[n]
         IN  IF \E i \in 1 .. Len(init) : init[i][key] = last[key]
             THEN [i \in 1 .. Len(init) |->
                     IF init[i][key] = last[key] THEN last ELSE init[i]]
             ELSE Append(init, last)

Column(batch, field) == [i \in 1 .. Len(batch) |-> batch[i][field]]

AllArgs == {"staging_table", "pydantic_model", "primary_key_columns"}
NoSettings == <<>>
Injections == {"none", "bulk", "finalize"}

\* the outcome of a helper: adapter state, exception, the adapter operation
\* that raised it, count, adapter calls
Result(a, err, op, ret, cs) ==
    [a |-> a, err |-> err, op |-> op, ret |-> ret, calls |-> cs]

\* prepare_load("DELTA"), bulk_load_batch, finalize("DELTA") on one target:
\* the body shared by _process_organizations, _process_substances,
\* _process_documents and _process_substance_links
load_delta(a, target_table, rows, pk, inj) ==
    LET p == prepare_load(a, "DELTA", target_table, FALSE)
        c1 == <<<<"prepare_load", target_table>>>>
    IN  IF p.err # "none" THEN Result(p.a, p.err, "prepare_load", 0, c1)
        ELSE
        LET b == bulk_load_batch(p.a, rows, p.ret, inj = "bulk")
            c2 == Append(c1, <<"bulk_load_batch", target_table>>)
        IN  IF b.err # "none"
            THEN Result(b.a, b.err, "bulk_load_batch", 0,
                        Append(c2, <<"rollback", "adapter">>))
            ELSE
            LET f == finalize(b.a, "DELTA", target_table, AllArgs, pk,
                              NoSettings, inj = "finalize")
                c3 == Append(c2, <<"finalize", target_table>>)
            IN  Result(f.a, f.err, IF f.err # "none" THEN "finalize" ELSE "none",
                       b.ret, c3)

\* _process_organizations returning without loading
process_organizations_skipped(a, organizations, inj) ==
    Result(a, "none", "none", 0, <<>>)

process_organizations(a, organizations, inj) ==
    IF organizations = <<>> THEN Result(a, "none", "none", 0, <<>>)
    ELSE load_delta(a, "organizations", DedupBy(organizations, "oms_id"),
                    {"oms_id"}, inj)

\* _process_substances running its cycle on the link table
process_substances_on_link_table(a, substances, inj) ==
    IF substances = <<>> THEN Result(a, "none", "none", 0, <<>>)
    ELSE load_delta(a, "epar_substance_link", <<>>,
                    {"epar_id", "spor_substance_id"}, inj)

process_substances(a, substances, inj) ==
    IF substances = <<>> THEN Result(a, "none", "none", 0, <<>>)
    ELSE load_delta(a, "substances", DedupBy(substances, "spor_substance_id"),
                    {"spor_substance_id"}, inj)

\* _process_substance_links returning without loading
process_substance_links_skipped(a, substance_links, inj) ==
    Result(a, "none", "none", 0, <<>>)

process_substance_links(a, substance_links, inj) ==
    IF substance_links = <<>> THEN Result(a, "none", "none", 0, <<>>)
    ELSE load_delta(a, "epar_substance_link", substance_links,
                    {"epar_id", "spor_substance_id"}, inj)

RECURSIVE SeqOfSet(_)
\* the members of a set of positions, in ascending order
SeqOfSet(S) ==
    IF S = {} THEN <<>>
    ELSE LET m == CHOOSE x \in S : \A y \in S : x <= y
         IN  <<m>> \o SeqOfSet(S \ {m})

\* the loop of _process_documents that also keeps a record for a document
\* whose download raised
document_records_with_failed(batch, found, failed, execution_id, batch_no) ==
    LET positions == SeqOfSet(found \cup failed)
    IN  [i \in 1 .. Len(positions) |->
            EparDocument(<<execution_id, batch_no, positions[i]>>,
                         batch[positions[i]].epar.epar_id)]

\* the loop of _process_documents over the records of a batch: one
\* EparDocument per record whose document was downloaded, none for a record
\* whose fetch or download raised
document_records(batch, found, failed, execution_id, batch_no) ==
    LET positions == SeqOfSet(found)
    IN  [i \in 1 .. Len(positions) |->
            EparDocument(<<execution_id, batch_no, positions[i]>>,
                         batch[positions[i]].epar.epar_id)]

\* the rest of _process_documents, on the records of the documents that
\* were downloaded
process_documents(a, records, inj) ==
    IF records = <<>> THEN Result(a, "none", "none", 0, <<>>)
    ELSE load_delta(a, "epar_documents", records, {"document_id"}, inj)

\* the cursor locals of run_etl before the loop: high_water_mark as the
\* ledger returned it, and new_high_water_mark = high_water_mark
cursor_locals_lost(latest) ==
    [high_water_mark |-> latest, new_high_water_mark |-> None]

cursor_locals(latest) ==
    [high_water_mark |-> latest, new_high_water_mark |-> latest]

\* the loop of run_etl that advances new_high_water_mark over a batch
RECURSIVE advance_high_water_mark(_, _)
advance_high_water_mark(new_high_water_mark, epar_records) ==
    IF epar_records = <<>> THEN new_high_water_mark
    ELSE LET record == Head(epar_records)
             cur == IF new_high_water_mark.kind = "datetime"
                    THEN date_of(new_high_water_mark)
                    ELSE new_high_water_mark
         IN  advance_high_water_mark(
               IF new_high_water_mark = None
                  \/ later(record.last_update_date_source, cur)
               THEN record.last_update_date_source
               ELSE new_high_water_mark,
               Tail(epar_records))

(***************************************************************************)
(* run_etl as a state machine.                                             *)
(*   db     the adapter state [cm, wk, txn, conn]                          *)
(*   pc     the position of run_etl                                        *)
(*   loc    the locals of run_etl                                          *)
(*   calls  the adapter calls of the current run, in order                 *)
(*   exc    the exception that left the try block of run_etl               *)
(*   raised the exception run_etl handed to its caller                     *)
(*   hist   what the run has seen: the committed database before the run,  *)
(*          the cursor values of rejected rows, the records bulk-loaded,   *)
(*          the documents whose fetch or download failed in the last       *)
(*          batch that went through _process_documents                     *)
(***************************************************************************)
VARIABLES db, pc, loc, calls, exc, raised, hist

vars == <<db, pc, loc, calls, exc, raised, hist>>

\* an exception: its class, the step of run_etl and the operation it left
NoException == [kind |-> "none", step |-> "none", op |-> "none"]
Exception(kind, step, op) == [kind |-> kind, step |-> step, op |-> op]

InitLoc ==
    [load_strategy |-> "DELTA", batch_size |-> 1, execution_id |-> 0,
     main_staging_table |-> TargetOf("epar_index"),
     high_water_mark |-> None, new_high_water_mark |-> None,
     total_loaded_count |-> 0, all_substance_links |-> <<>>,
     batch |-> <<>>, batch_no |-> 0, pulled |-> 0, exhausted |-> FALSE]

InitHist ==
    [pre |-> EmptyDb, rejected |-> {}, staged |-> <<>>, failed |-> {}]

\* the adapter as get_db_adapter builds it, on the committed database cm
New(cm) == [cm |-> cm, wk |-> cm, txn |-> "idle", conn |-> "none"]

\* the tuples one batch holds for a source and a cursor
BatchOf(source, high_water_mark) ==
    Flatten([i \in 1 .. Len(source) |->
        LET extracted == extract_data(source[i], high_water_mark)
        IN  IF extracted = <<>> THEN <<>>
            ELSE transform_and_validate(extracted[1])])

\* the committed database a successful run_etl leaves when it starts from the
\* committed database cm, reads source in a single batch and finds no
\* document: the adapter calls of run_etl in their order
run_once(cm, load_strategy, source) ==
    LET s == log_pipeline_start(connect(New(cm)), load_strategy)
        p == prepare_load(s.a, load_strategy, "epar_index", FALSE)
        h == IF load_strategy = "DELTA"
             THEN get_latest_high_water_mark(p.a)
             ELSE Outcome(p.a, "none", None)
        batch == BatchOf(source, h.ret)
        o == process_organizations(
                 h.a, Flatten(Column(batch, "organizations")), "none")
        u == process_substances(
                 o.a, Flatten(Column(batch, "substances")), "none")
        b == IF batch = <<>> THEN Outcome(u.a, "none", 0)
             ELSE bulk_load_batch(u.a, Column(batch, "epar"), p.ret, FALSE)
        f == finalize(b.a, load_strategy, "epar_index", AllArgs,
                      {"epar_id"}, NoSettings, FALSE)
        l == process_substance_links(
                 f.a, Flatten(Column(batch, "substance_links")), "none")
        g == log_pipeline_success(
                 l.a, s.ret, b.ret,
                 advance_high_water_mark(cursor_locals(h.ret).new_high_water_mark,
                                         Column(batch, "epar")))
    IN  close(g.a).cm

\* the committed database a DELTA run_etl leaves when the source cannot be
\* read: log_pipeline_start, prepare_load, the exception, the except clause
failed_once(cm) ==
    LET s == log_pipeline_start(connect(New(cm)), "DELTA")
        p == prepare_load(s.a, "DELTA", "epar_index", FALSE)
        h == get_latest_high_water_mark(p.a)
        l == log_pipeline_failure(h.a, s.ret)
    IN  close(rollback(l.a)).cm

Raw(id, d, kind) == [product_number |-> id, revision_date |-> d, kind |-> kind]

\* the databases a run starts from: a fresh one, one loaded by a FULL run,
\* one loaded by a DELTA run that a failed DELTA run followed
SeedFull == run_once(EmptyDb, "FULL", <<Raw("A", 1, "ok"), Raw("B", 2, "org")>>)
SeedDelta ==
    failed_once(
        run_once(EmptyDb, "DELTA", <<Raw("A", 1, "org"), Raw("B", 1, "ok")>>))
Seeds == {EmptyDb, SeedFull, SeedDelta}

Init ==
    /\ \E cm \in Seeds : db = New(cm)
    /\ pc = "idle"
    /\ loc = InitLoc
    /\ calls = <<>>
    /\ exc = NoException
    /\ raised = NoException
    /\ hist = InitHist

\* an exception leaves the try block of run_etl
Raise(a, kind, step, op, cs) ==
    /\ db' = a
    /\ pc' = "except"
    /\ exc' = Exception(kind, step, op)
    /\ raised' = raised
    /\ calls' = calls \o cs

\* run_etl up to and including log_pipeline_start
RunEtl(load_strategy, batch_size) ==
    /\ pc = "idle"
    /\ LET s == log_pipeline_start(connect(db), load_strategy)
       IN  /\ db' = s.a
           /\ loc' = [InitLoc EXCEPT !.load_strategy = load_strategy,
                                     !.batch_size = batch_size,
                                     !.execution_id = s.ret]
    /\ pc' = "prepare"
    /\ calls' = <<<<"connect", "">>, <<"log_pipeline_start", "">>>>
    /\ exc' = NoException
    /\ raised' = NoException
    /\ hist' = [InitHist EXCEPT !.pre = db.cm]

\* prepare_load of the main table, then the cursor of a DELTA run
PrepareMain(inject) ==
    /\ pc = "prepare"
    /\ LET p == prepare_load(db, loc.load_strategy, "epar_index", inject)
           c == <<<<"prepare_load", "epar_index">>>>
       IN  IF p.err # "none"
           THEN /\ Raise(p.a, p.err, "prepare", "prepare_load", c)
                /\ UNCHANGED loc
           ELSE LET h == IF loc.load_strategy = "DELTA"
                         THEN get_latest_high_water_mark(p.a)
                         ELSE Outcome(p.a, "none", None)
                IN  /\ db' = h.a
                    /\ loc' = [loc EXCEPT
                                 !.main_staging_table = p.ret,
                                 !.high_water_mark =
                                     cursor_locals(h.ret).high_water_mark,
                                 !.new_high_water_mark =
                                     cursor_locals(h.ret).new_high_water_mark]
                    /\ pc' = "stream"
                    /\ calls' = calls \o c
                    /\ UNCHANGED <<exc, raised>>
    /\ UNCHANGED hist

\* _batch_iterator pulls one more row through extract_data and
\* transform_and_validate; a full batch is handed to the loop body
Pull(raw_record) ==
    /\ pc = "stream"
    /\ ~loc.exhausted
    /\ loc.pulled < MaxSrc
    /\ LET extracted == extract_data(raw_record, loc.high_water_mark)
           yielded == IF extracted = <<>> THEN <<>>
                      ELSE transform_and_validate(extracted[1])
           batch == loc.batch \o yielded
       IN  /\ loc' = [loc EXCEPT !.pulled = loc.pulled + 1, !.batch = batch]
           /\ pc' = IF Len(batch) >= loc.batch_size THEN "orgs" ELSE "stream"
           /\ hist' = IF extracted # <<>> /\ yielded = <<>>
                      THEN [hist EXCEPT !.rejected =
                              hist.rejected \cup {raw_record.revision_date}]
                      ELSE hist
    /\ UNCHANGED <<db, calls, exc, raised>>

\* the source is exhausted: _batch_iterator yields the last, partial batch
EndOfStream ==
    /\ pc = "stream"
    /\ ~loc.exhausted
    /\ loc' = [loc EXCEPT !.exhausted = TRUE]
    /\ pc' = IF loc.batch # <<>> THEN "orgs" ELSE "finalize"
    /\ UNCHANGED <<db, calls, exc, raised, hist>>

\* the download or the parse of the source raises while a row is pulled
ExtractFails ==
    /\ pc = "stream"
    /\ ~loc.exhausted
    /\ Raise(db, "Exception", "stream", "extract_data", <<>>)
    /\ UNCHANGED <<loc, hist>>

\* the loop body up to _process_organizations
ProcessOrganizations(inj) ==
    /\ pc = "orgs"
    /\ LET organizations == Flatten(Column(loc.batch, "organizations"))
           r == process_organizations(db, organizations, inj)
       IN  /\ organizations = <<>> => inj = "none"
           /\ IF r.err # "none"
              THEN /\ Raise(r.a, r.err, "_process_organizations", r.op, r.calls)
                   /\ UNCHANGED loc
              ELSE /\ db' = r.a
                   /\ calls' = calls \o r.calls
                   /\ pc' = "subs"
                   /\ UNCHANGED <<exc, raised>>
                   /\ loc' = [loc EXCEPT !.all_substance_links =
                                loc.all_substance_links \o
                                Flatten(Column(loc.batch, "substance_links"))]
    /\ UNCHANGED hist

ProcessSubstances(inj) ==
    /\ pc = "subs"
    /\ LET substances == Flatten(Column(loc.batch, "substances"))
           r == process_substances(db, substances, inj)
       IN  /\ substances = <<>> => inj = "none"
           /\ IF r.err # "none"
              THEN Raise(r.a, r.err, "_process_substances", r.op, r.calls)
              ELSE /\ db' = r.a
                   /\ calls' = calls \o r.calls
                   /\ pc' = "docs"
                   /\ UNCHANGED <<exc, raised>>
    /\ UNCHANGED <<loc, hist>>

\* _process_documents: found is the set of records of the batch for which a
\* document was found and downloaded, failed the set of records whose page
\* fetch or document download raised (caught, logged, the record skipped);
\* the other records have no page or no document.  document_id is a fresh
\* uuid4
ProcessDocuments(found, failed, inj) ==
    /\ pc = "docs"
    /\ found \subseteq 1 .. Len(loc.batch)
    /\ failed \subseteq (1 .. Len(loc.batch)) \ found
    /\ LET records == document_records(loc.batch, found, failed,
                                       loc.execution_id, loc.batch_no)
           r == process_documents(db, records, inj)
       IN  /\ records = <<>> => inj = "none"
           /\ IF r.err # "none"
              THEN Raise(r.a, r.err, "_process_documents", r.op, r.calls)
              ELSE /\ db' = r.a
                   /\ calls' = calls \o r.calls
                   /\ pc' = "load"
                   /\ UNCHANGED <<exc, raised>>
    /\ hist' = [hist EXCEPT !.failed =
                  {<<loc.execution_id, loc.batch_no, i>> : i \in failed}]
    /\ UNCHANGED loc

\* the rest of the loop body: advance the high-water-mark, bulk-load the
\* batch into the main destination, add to the running total
LoadBatch(inject) ==
    /\ pc = "load"
    /\ LET epar_records == Column(loc.batch, "epar")
           b == bulk_load_batch(db, epar_records, loc.main_staging_table, inject)
           c == <<<<"bulk_load_batch", "epar_index">>>>
           hwm == advance_high_water_mark(loc.new_high_water_mark, epar_records)
       IN  IF b.err # "none"
           THEN /\ Raise(b.a, b.err, "load", "bulk_load_batch",
                         Append(c, <<"rollback", "adapter">>))
                /\ loc' = [loc EXCEPT !.new_high_water_mark = hwm]
                /\ UNCHANGED hist
           ELSE /\ db' = b.a
                /\ calls' = calls \o c
                /\ UNCHANGED <<exc, raised>>
                /\ pc' = IF loc.exhausted THEN "finalize" ELSE "stream"
                /\ loc' = [loc EXCEPT
                             !.new_high_water_mark = hwm,
                             !.total_loaded_count = loc.total_loaded_count + b.ret,
                             !.batch = <<>>,
                             !.batch_no = loc.batch_no + 1]
                /\ hist' = [hist EXCEPT !.staged = hist.staged \o epar_records]

\* finalize of the main table
FinalizeMain(inject) ==
    /\ pc = "finalize"
    /\ LET f == finalize(db, loc.load_strategy, "epar_index", AllArgs,
                         {"epar_id"}, NoSettings, inject)
           c == <<<<"finalize", "epar_index">>>>
       IN  IF f.err # "none"
           THEN Raise(f.a, f.err, "finalize", "finalize", c)
           ELSE /\ db' = f.a
                /\ calls' = calls \o c
                /\ UNCHANGED <<exc, raised>>
                /\ pc' = "links"
    /\ UNCHANGED <<loc, hist>>

\* _process_substance_links over the links of the whole run
ProcessLinks(inj) ==
    /\ pc = "links"
    /\ LET r == process_substance_links(db, loc.all_substance_links, inj)
       IN  /\ loc.all_substance_links = <<>> => inj = "none"
           /\ IF r.err # "none"
              THEN Raise(r.a, r.err, "_process_substance_links", r.op, r.calls)
              ELSE /\ db' = r.a
                   /\ calls' = calls \o r.calls
                   /\ pc' = "success"
                   /\ UNCHANGED <<exc, raised>>
    /\ UNCHANGED <<loc, hist>>

\* log_pipeline_success, then the finally clause closes the adapter and
\* run_etl returns
LogSuccess ==
    /\ pc = "success"
    /\ LET s == log_pipeline_success(db, loc.execution_id,
                                     loc.total_loaded_count,
                                     loc.new_high_water_mark)
       IN  db' = close(s.a)
    /\ calls' = calls \o <<<<"log_pipeline_success", "">>, <<"close", "">>>>
    /\ pc' = "returned"
    /\ UNCHANGED <<loc, exc, raised, hist>>

\* the except clause: log_pipeline_failure, then rollback, then the finally
\* clause closes the adapter and the exception reaches the caller.  An
\* exception raised by log_pipeline_failure leaves the except clause at once
\* and replaces the one in flight.
HandleFailure ==
    /\ pc = "except"
    /\ LET l == log_pipeline_failure(db, loc.execution_id)
       IN  IF l.err # "none"
           THEN /\ db' = close(l.a)
                /\ raised' = Exception(l.err, "except", "log_pipeline_failure")
                /\ calls' = calls \o <<<<"log_pipeline_failure", "">>,
                                       <<"close", "">>>>
           ELSE /\ db' = close(rollback(l.a))
                /\ raised' = exc
                /\ calls' = calls \o <<<<"log_pipeline_failure", "">>,
                                       <<"rollback", "run_etl">>,
                                       <<"close", "">>>>
    /\ pc' = "raised"
    /\ UNCHANGED <<loc, exc, hist>>

Next ==
    \/ \E s \in Strategies \cup {UnknownStrategy}, n \in BatchSizes : RunEtl(s, n)
    \/ \E inject \in BOOLEAN : PrepareMain(inject)
    \/ \E r \in RunRows : Pull(r)
    \/ EndOfStream
    \/ ExtractFails
    \/ \E inj \in Injections : ProcessOrganizations(inj)
    \/ \E inj \in Injections : ProcessSubstances(inj)
    \/ \E found, failed \in SUBSET (1 .. Len(loc.batch)), inj \in Injections :
           ProcessDocuments(found, failed, inj)
    \/ \E inject \in BOOLEAN : LoadBatch(inject)
    \/ \E inject \in BOOLEAN : FinalizeMain(inject)
    \/ \E inj \in Injections : ProcessLinks(inj)
    \/ LogSuccess
    \/ HandleFailure

Spec == Init /\ [][Next]_vars

(***************************************************************************)
(* Properties of run_etl, under Spec.                                      *)
(***************************************************************************)
MainTable(cm) == cm.tbl["epar_index"]

\* the tables and the staging relations of a snapshot, without the ledger
Data(cm) == [tbl |-> cm.tbl, stg |-> cm.stg]

CountCalls(c) == Cardinality({i \in 1 .. Len(calls) : calls[i] = c})

\* the ledger row of the current run, as committed
OwnRow == db.cm.pipeline_execution[loc.execution_id]

\* C1: when run_etl has raised, the committed main table is what it was
\* before the run
C1_RollbackCompleteness ==
    pc = "raised" => MainTable(db.cm) = MainTable(hist.pre)

\* C2: from prepare_load of the main table up to its finalize, nothing the
\* run does changes the committed main table
C2_NoCommitBeforeMainFinalize ==
    pc \in {"stream", "orgs", "subs", "docs", "load", "finalize"}
        => MainTable(db.cm) = MainTable(hist.pre)

\* C3: when bulk_load_batch or finalize has raised, the transaction is rolled
\* back when the except clause starts the FAILED ledger write, and that write
\* commits no table and no staging relation
C3_FailureLogAfterRollback ==
    [][(pc = "except" /\ exc.op \in {"bulk_load_batch", "finalize"})
          => /\ db.txn = "idle"
             /\ db.wk = db.cm
             /\ Data(db'.cm) = Data(db.cm)]_vars

\* C4: when run_etl has raised, it has called log_pipeline_failure once,
\* rollback once, log_pipeline_success never, close once, the caller holds
\* the exception that left the try block, and a failure before the finalize
\* of the main table means that finalize was not called
C4_FailureProtocol ==
    pc = "raised" =>
        /\ CountCalls(<<"log_pipeline_failure", "">>) = 1
        /\ CountCalls(<<"rollback", "run_etl">>) = 1
        /\ CountCalls(<<"log_pipeline_success", "">>) = 0
        /\ CountCalls(<<"close", "">>) = 1
        /\ raised = exc
        /\ exc.step \notin {"finalize", "_process_substance_links"}
              => CountCalls(<<"finalize", "epar_index">>) = 0

\* C5: when run_etl has returned the ledger row of the run is SUCCESS, when
\* it has raised the row is FAILED
C5_TerminalLedgerStatus ==
    /\ pc = "returned" => OwnRow.status = "SUCCESS"
    /\ pc = "raised" => OwnRow.status = "FAILED"

\* the value get_latest_high_water_mark returns on a committed database
Latest(cm) == get_latest_high_water_mark(connect(New(cm))).ret

\* x >= y on cursors, None below every timestamp
AtLeast(x, y) == y = None \/ (x # None /\ ~later(y, x))

\* C6: the cursor never decreases over a run; a successful DELTA run writes a
\* high-water-mark at or above the one it started from, and the one it started
\* from when it staged nothing
C6_HighWaterMarkMonotone ==
    /\ AtLeast(Latest(db.cm), Latest(hist.pre))
    /\ (pc = "returned" /\ loc.load_strategy = "DELTA") =>
          /\ AtLeast(OwnRow.high_water_mark, loc.high_water_mark)
          /\ hist.staged = <<>> =>
                OwnRow.high_water_mark = loc.high_water_mark

\* a DELTA run that started from a cursor, staged records and returned
C6_Witness ==
    /\ pc = "returned"
    /\ loc.load_strategy = "DELTA"
    /\ loc.high_water_mark # None
    /\ hist.staged # <<>>
    /\ later(OwnRow.high_water_mark, loc.high_water_mark)

\* C7: the high-water-mark a successful run logs is the latest date among the
\* records it committed and the cursor it started from, and is not later than
\* the date of any row the run rejected
C7_HighWaterMarkCoversCommitted ==
    pc = "returned" =>
        LET ds == {hist.staged[i].last_update_date_source.d :
                      i \in 1 .. Len(hist.staged)}
                  \cup (IF loc.high_water_mark = None THEN {}
                        ELSE {loc.high_water_mark.d})
        IN  /\ OwnRow.high_water_mark =
                  IF ds = {} THEN None
                  ELSE datetime(CHOOSE d \in ds : \A e \in ds : e <= d, 0)
            /\ \A d \in hist.rejected :
                  ~(OwnRow.high_water_mark # None
                    /\ OwnRow.high_water_mark.d > d)

\* C9: after a successful DELTA run every row that was active and was not
\* staged is inactive, every staged record is in the main table as staged, and
\* every row of before is still there
C9_SoftDeleteReconciliation ==
    (pc = "returned" /\ loc.load_strategy = "DELTA") =>
        LET staged_ids == {hist.staged[i].epar_id : i \in 1 .. Len(hist.staged)}
        IN  /\ \A o \in MainTable(hist.pre) :
                  (o.is_active /\ o.epar_id \notin staged_ids)
                     => \E r \in MainTable(db.cm) :
                           r.epar_id = o.epar_id /\ ~r.is_active
            /\ \A i \in 1 .. Len(hist.staged) :
                  hist.staged[i] \in MainTable(db.cm)
            /\ \A o \in MainTable(hist.pre) :
                  \E r \in MainTable(db.cm) : r.epar_id = o.epar_id

\* the positions of an adapter call in the calls of the run
Positions(c) == {i \in 1 .. Len(calls) : calls[i] = c}

\* C15: among the adapter calls of a run, every finalize of organizations or
\* substances comes before every finalize of epar_index, every finalize of
\* epar_substance_link comes after a finalize of epar_index, and after a
\* finalize of epar_substance_link there is no finalize of organizations or
\* substances and no bulk_load_batch or finalize of epar_index
C15_FinalizeOrder ==
    LET master == Positions(<<"finalize", "organizations">>)
                    \cup Positions(<<"finalize", "substances">>)
        main == Positions(<<"finalize", "epar_index">>)
        link == Positions(<<"finalize", "epar_substance_link">>)
        load == Positions(<<"bulk_load_batch", "epar_index">>)
    IN  /\ \A i \in master : \A j \in main : i < j
        /\ \A k \in link : \E j \in main : j < k
        /\ \A k \in link : \A i \in master \cup main \cup load : i < k

\* a run of two batches that returned after the finalizes of organizations,
\* substances, epar_index and epar_substance_link
C15_Witness ==
    /\ pc = "returned"
    /\ CountCalls(<<"bulk_load_batch", "epar_index">>) = 2
    /\ CountCalls(<<"finalize", "organizations">>) >= 1
    /\ CountCalls(<<"finalize", "substances">>) >= 1
    /\ CountCalls(<<"finalize", "epar_index">>) = 1
    /\ CountCalls(<<"finalize", "epar_substance_link">>) = 1

\* C16: in the committed database, at every point of a run and after it,
\* every mah_oms_id of epar_index that is not null is the oms_id of a row of
\* organizations, and every row of epar_substance_link names a row of
\* epar_index and a row of substances
C16_ReferencesCommitted ==
    /\ \A r \in db.cm.tbl["epar_index"] :
          r.mah_oms_id # "none" =>
             \E o \in db.cm.tbl["organizations"] : o.oms_id = r.mah_oms_id
    /\ \A l \in db.cm.tbl["epar_substance_link"] :
          /\ \E r \in db.cm.tbl["epar_index"] : r.epar_id = l.epar_id
          /\ \E u \in db.cm.tbl["substances"] :
                u.spor_substance_id = l.spor_substance_id

\* a run on a fresh database that has committed a record with a holder and
\* its link
C16_Witness ==
    /\ pc = "returned"
    /\ hist.pre = EmptyDb
    /\ \E r \in db.cm.tbl["epar_index"] : r.mah_oms_id # "none"
    /\ db.cm.tbl["epar_substance_link"] # {}

(***************************************************************************)
(* The ledger on its own: a caller that starts executions, closes any of   *)
(* them as a success or a failure, and asks for the latest                 *)
(* high-water-mark.                                                        *)
(***************************************************************************)
\* the values run_etl passes as new_high_water_mark
Cursors == {None} \cup {date(d) : d \in Dates} \cup {datetime(d, 0) : d \in Dates}

InitLedger ==
    /\ db = connect(New(EmptyDb))
    /\ pc = "ledger"
    /\ loc = InitLoc
    /\ calls = <<>>
    /\ exc = NoException
    /\ raised = NoException
    /\ hist = InitHist

LedgerStart(load_strategy) ==
    /\ pc \in {"ledger", "queried"}
    /\ Len(db.cm.pipeline_execution) < MaxLedger
    /\ db' = log_pipeline_start(db, load_strategy).a
    /\ pc' = "ledger"
    /\ loc' = InitLoc
    /\ UNCHANGED <<calls, exc, raised, hist>>

LedgerSuccess(execution_id, records_processed, new_high_water_mark) ==
    /\ pc \in {"ledger", "queried"}
    /\ execution_id \in 1 .. Len(db.cm.pipeline_execution)
    /\ db' = log_pipeline_success(db, execution_id, records_processed,
                                  new_high_water_mark).a
    /\ pc' = "ledger"
    /\ loc' = InitLoc
    /\ UNCHANGED <<calls, exc, raised, hist>>

LedgerFailure(execution_id) ==
    /\ pc \in {"ledger", "queried"}
    /\ execution_id \in 1 .. Len(db.cm.pipeline_execution)
    /\ db' = log_pipeline_failure(db, execution_id).a
    /\ pc' = "ledger"
    /\ loc' = InitLoc
    /\ UNCHANGED <<calls, exc, raised, hist>>

LedgerQuery ==
    /\ pc = "ledger"
    /\ LET q == get_latest_high_water_mark(db)
       IN  /\ db' = rollback(q.a)
           /\ loc' = [loc EXCEPT !.high_water_mark = q.ret]
    /\ pc' = "queried"
    /\ UNCHANGED <<calls, exc, raised, hist>>

NextLedger ==
    \/ \E s \in Strategies : LedgerStart(s)
    \/ \E i \in 1 .. MaxLedger, n \in 0 .. 1, c \in Cursors :
           LedgerSuccess(i, n, c)
    \/ \E i \in 1 .. MaxLedger : LedgerFailure(i)
    \/ LedgerQuery

SpecLedger == InitLedger /\ [][NextLedger]_vars

\* the rows of the committed ledger that are SUCCESS and DELTA
Eligible ==
    {i \in 1 .. Len(db.cm.pipeline_execution) :
        /\ db.cm.pipeline_execution[i].status = "SUCCESS"
        /\ db.cm.pipeline_execution[i].load_strategy = "DELTA"
        /\ db.cm.pipeline_execution[i].high_water_mark # None}

\* C8: the value get_latest_high_water_mark returned is the
\* high_water_mark of a SUCCESS row of strategy DELTA that no other such row
\* exceeds, and None when no such row carries one; the other rows have no
\* part in it
C8_LatestHighWaterMark ==
    pc = "queried" =>
        IF Eligible = {}
        THEN loc.high_water_mark = None
        ELSE /\ \E i \in Eligible :
                   loc.high_water_mark = db.cm.pipeline_execution[i].high_water_mark
             /\ \A i \in Eligible :
                   db.cm.pipeline_execution[i].high_water_mark.d
                       <= loc.high_water_mark.d

\* a query that returned a mark while a row that is not SUCCESS or not DELTA
\* carries a later one
C8_Witness ==
    /\ pc = "queried"
    /\ loc.high_water_mark # None
    /\ \E i \in 1 .. Len(db.cm.pipeline_execution) :
          /\ i \notin Eligible
          /\ db.cm.pipeline_execution[i].high_water_mark.d > loc.high_water_mark.d

(***************************************************************************)
(* The adapter on its own: a caller that connects, runs one load cycle on  *)
(* epar_index (prepare_load, then bulk_load_batch any number of times,     *)
(* then finalize), may run the same cycle a second time, and may call      *)
(* rollback or close at any point.                                         *)
(***************************************************************************)
\* the rows a caller loads: medicines without a holder
LoadRows ==
    {EparIndex(id, date(d), active, "none") :
        id \in EparIds, d \in Dates, active \in BOOLEAN}

\* the batches a caller hands over: one row, or two
LoadBatches ==
    {<<r>> : r \in LoadRows} \cup {<<r, q>> : r \in LoadRows, q \in LoadRows}

\* soft_delete_settings with the three keys _perform_soft_delete reads
SoftDeleteSettings ==
    [column |-> "is_active", inactive_value |-> FALSE, active_value |-> TRUE]

\* soft_delete_settings that lack inactive_value and active_value
IncompleteSettings == [column |-> "is_active"]

\* the soft_delete_settings argument by name
SettingsOf(name) ==
    CASE name = "complete" -> SoftDeleteSettings
      [] name = "incomplete" -> IncompleteSettings
      [] OTHER -> NoSettings

\* the ways a caller calls finalize: the strategy, the optional arguments it
\* passes and the soft-delete settings
FinalizeCall(load_strategy, args, settings) ==
    [load_strategy |-> load_strategy, args |-> args, settings |-> settings]

FinalizeCalls ==
    {FinalizeCall(st, AllArgs, "none") : st \in Strategies \cup {UnknownStrategy}}
    \cup {FinalizeCall("DELTA", AllArgs, st) : st \in {"complete", "incomplete"}}
    \cup {FinalizeCall("DELTA", AllArgs \ {x}, "complete") : x \in AllArgs}
    \cup {FinalizeCall("DELTA", {}, "none")}

NoCall == FinalizeCall("none", {}, "none")

\* the committed database run_etl leaves when a DELTA run has bulk-loaded its
\* first batch and the source cannot be read further: the staging relation
\* and its rows are committed by log_pipeline_failure
failed_after_load(cm, source) ==
    LET s == log_pipeline_start(connect(New(cm)), "DELTA")
        p == prepare_load(s.a, "DELTA", "epar_index", FALSE)
        h == get_latest_high_water_mark(p.a)
        b == bulk_load_batch(h.a, Column(BatchOf(source, h.ret), "epar"),
                             p.ret, FALSE)
        l == log_pipeline_failure(b.a, s.ret)
    IN  close(rollback(l.a)).cm

\* a database with an inactive row, an active row and a leftover staging
\* relation that holds a row
SeedLeftover ==
    failed_after_load(
        run_once(EmptyDb, "FULL", <<Raw("A", 1, "wd"), Raw("B", 1, "ok")>>),
        <<Raw("A", 2, "ok")>>)

AdapterSeeds == Seeds \cup {SeedLeftover}

InitAdapterLoc ==
    [load_strategy |-> "none", target_table |-> "epar_index",
     staging_table |-> TargetOf("epar_index"),
     call |-> NoCall, loaded |-> 0, before |-> "none", once |-> {}]

InitAdapter ==
    /\ \E cm \in AdapterSeeds :
          /\ db = New(cm)
          /\ hist = [InitHist EXCEPT !.pre = cm]
    /\ pc = "adapter_new"
    /\ loc = InitAdapterLoc
    /\ calls = <<>>
    /\ exc = NoException
    /\ raised = NoException

AdapterConnect ==
    /\ pc = "adapter_new"
    /\ db' = connect(db)
    /\ pc' = "adapter"
    /\ calls' = Append(calls, <<"connect", "">>)
    /\ UNCHANGED <<loc, exc, raised, hist>>

AdapterPrepareLoad(load_strategy, inject) ==
    /\ pc = "adapter"
    /\ LET p == prepare_load(db, load_strategy, loc.target_table, inject)
       IN  /\ db' = p.a
           /\ IF p.err # "none"
              THEN /\ pc' = "adapter_raised"
                   /\ exc' = Exception(p.err, "adapter", "prepare_load")
                   /\ loc' = [loc EXCEPT !.load_strategy = load_strategy]
              ELSE /\ pc' = "adapter_loading"
                   /\ exc' = exc
                   /\ loc' = [loc EXCEPT !.load_strategy = load_strategy,
                                         !.staging_table = p.ret]
    /\ calls' = Append(calls, <<"prepare_load", loc.target_table>>)
    /\ UNCHANGED <<raised, hist>>

AdapterBulkLoad(rows, inject) ==
    /\ pc = "adapter_loading"
    /\ Len(hist.staged) + Len(rows) <= MaxSrc
    /\ LET b == bulk_load_batch(db, rows, loc.staging_table, inject)
       IN  /\ db' = b.a
           /\ IF b.err # "none"
              THEN /\ pc' = "adapter_raised"
                   /\ exc' = Exception(b.err, "adapter", "bulk_load_batch")
                   /\ UNCHANGED <<loc, hist>>
              ELSE /\ pc' = "adapter_loading"
                   /\ exc' = exc
                   /\ loc' = [loc EXCEPT !.loaded = loc.loaded + b.ret]
                   /\ hist' = [hist EXCEPT !.staged = hist.staged \o rows]
    /\ calls' = Append(calls, <<"bulk_load_batch", loc.target_table>>)
    /\ UNCHANGED raised

AdapterFinalize(call, inject) ==
    /\ pc = "adapter_loading"
    /\ LET f == finalize(db, call.load_strategy, loc.target_table, call.args,
                         IF "primary_key_columns" \in call.args
                         THEN {"epar_id"} ELSE {},
                         SettingsOf(call.settings), inject)
       IN  /\ db' = f.a
           /\ IF f.err # "none"
              THEN /\ pc' = "adapter_raised"
                   /\ exc' = Exception(f.err, "adapter", "finalize")
                   /\ loc' = [loc EXCEPT !.call = call]
              ELSE /\ pc' = "adapter_finalized"
                   /\ exc' = exc
                   /\ loc' = [loc EXCEPT !.call = call,
                                         !.once = MainTable(f.a.cm)]
    /\ calls' = Append(calls, <<"finalize", loc.target_table>>)
    /\ UNCHANGED <<raised, hist>>

\* the caller runs the cycle it has just finished once more: the same
\* prepare_load, the same rows in one bulk_load_batch, the same finalize
AdapterRepeat ==
    /\ pc = "adapter_finalized"
    /\ loc.load_strategy = "DELTA"
    /\ loc.call.load_strategy = "DELTA"
    /\ LET p == prepare_load(db, loc.load_strategy, loc.target_table, FALSE)
           b == bulk_load_batch(p.a, hist.staged, p.ret, FALSE)
           f == finalize(b.a, loc.call.load_strategy, loc.target_table,
                         loc.call.args, {"epar_id"},
                         SettingsOf(loc.call.settings), FALSE)
       IN  /\ db' = f.a
           /\ exc' = IF f.err # "none"
                     THEN Exception(f.err, "adapter", "finalize") ELSE exc
    /\ pc' = "adapter_repeated"
    /\ calls' = calls \o <<<<"prepare_load", loc.target_table>>,
                           <<"bulk_load_batch", loc.target_table>>,
                           <<"finalize", loc.target_table>>>>
    /\ UNCHANGED <<loc, raised, hist>>

AdapterRollback ==
    /\ pc \in {"adapter_new", "adapter", "adapter_loading", "adapter_raised",
               "adapter_finalized", "adapter_closed"}
    /\ db' = rollback(db)
    /\ raised' = IF rollback_error(db) # "none"
                 THEN Exception(rollback_error(db), pc, "rollback")
                 ELSE raised
    /\ pc' = "adapter_rolled_back"
    /\ loc' = [loc EXCEPT !.before = pc]
    /\ calls' = Append(calls, <<"rollback", "caller">>)
    /\ UNCHANGED <<exc, hist>>

AdapterClose ==
    /\ pc \in {"adapter", "adapter_loading", "adapter_raised",
               "adapter_finalized"}
    /\ db' = close(db)
    /\ pc' = "adapter_closed"
    /\ loc' = [loc EXCEPT !.before = pc]
    /\ calls' = Append(calls, <<"close", "">>)
    /\ UNCHANGED <<exc, raised, hist>>

NextAdapter ==
    \/ AdapterConnect
    \/ \E s \in Strategies \cup {UnknownStrategy}, inject \in BOOLEAN :
           AdapterPrepareLoad(s, inject)
    \/ \E rows \in LoadBatches, inject \in BOOLEAN : AdapterBulkLoad(rows, inject)
    \/ \E call \in FinalizeCalls, inject \in BOOLEAN :
           AdapterFinalize(call, inject)
    \/ AdapterRepeat
    \/ AdapterRollback
    \/ AdapterClose

SpecAdapter == InitAdapter /\ [][NextAdapter]_vars

\* a DELTA cycle on epar_index whose finalize was given the staging table,
\* the model and the key epar_id, and has returned
DeltaCycleDone ==
    /\ pc = "adapter_finalized"
    /\ loc.load_strategy = "DELTA"
    /\ loc.call.load_strategy = "DELTA"

StagedIds == {hist.staged[i].epar_id : i \in 1 .. Len(hist.staged)}

\* C10: after a DELTA cycle on epar_index that loaded rows and whose finalize
\* got the staging table, the model and the key epar_id but no soft-delete
\* settings, every row that was active and is not among the staged rows is
\* inactive, every staged row that is active is in the table as staged, and
\* every row of before is still there
C10_DirectDeltaSoftDelete ==
    (DeltaCycleDone /\ hist.staged # <<>> /\ loc.call.settings = "none") =>
        /\ \A o \in MainTable(hist.pre) :
              (o.is_active /\ o.epar_id \notin StagedIds)
                 => \E r \in MainTable(db.cm) :
                       r.epar_id = o.epar_id /\ ~r.is_active
        /\ \A i \in 1 .. Len(hist.staged) :
              hist.staged[i].is_active => hist.staged[i] \in MainTable(db.cm)
        /\ \A o \in MainTable(hist.pre) :
              \E r \in MainTable(db.cm) : r.epar_id = o.epar_id

\* the keys of a set of epar_index rows
Ids(rows) == {r.epar_id : r \in rows}

\* C11: after a DELTA cycle whose finalize got complete soft-delete settings,
\* every row of before whose key was not staged is there with is_active
\* false when it was active and untouched when it was inactive, every staged
\* row is there as staged, and there is one row for each key of before and
\* each staged key; with incomplete settings every row of before whose key
\* was not staged is untouched
C11_SoftDeleteFrame ==
    (DeltaCycleDone /\ loc.call.settings \in {"complete", "incomplete"}) =>
        /\ \A o \in MainTable(hist.pre) :
              o.epar_id \notin StagedIds =>
                 (IF o.is_active /\ loc.call.settings = "complete"
                  THEN [o EXCEPT !.is_active = FALSE]
                  ELSE o) \in MainTable(db.cm)
        /\ \A i \in 1 .. Len(hist.staged) : hist.staged[i] \in MainTable(db.cm)
        /\ Ids(MainTable(db.cm)) = Ids(MainTable(hist.pre)) \cup StagedIds
        /\ Cardinality(MainTable(db.cm)) = Cardinality(Ids(MainTable(db.cm)))

\* a finalize with complete settings that deactivated a row of before and
\* kept a staged, active row whose key was in the table
C11_Witness ==
    /\ DeltaCycleDone
    /\ loc.call.settings = "complete"
    /\ \E o \in MainTable(hist.pre) :
          /\ o.is_active
          /\ o.epar_id \notin StagedIds
          /\ [o EXCEPT !.is_active = FALSE] \in MainTable(db.cm)
    /\ \E i \in 1 .. Len(hist.staged) :
          /\ hist.staged[i].is_active
          /\ hist.staged[i].epar_id \in Ids(MainTable(hist.pre))

C13_DeltaIdempotent ==
    pc = "adapter_repeated" =>
        /\ exc = NoException
        /\ MainTable(db.cm) = loc.once

\* a second cycle after a first one that had changed the table
C13_Witness ==
    /\ pc = "adapter_repeated"
    /\ hist.staged # <<>>
    /\ loc.once # MainTable(hist.pre)
    /\ MainTable(db.cm) = loc.once

\* a FULL cycle on epar_index that has returned
FullCycleDone ==
    /\ pc = "adapter_finalized"
    /\ loc.load_strategy = "FULL"
    /\ loc.call.load_strategy = "FULL"

\* C14: after a FULL cycle the table holds the rows that were loaded, as many
\* as were loaded, whatever it held before, and prepare_load had returned
\* the target table as the destination of the load
C14_FullReplaces ==
    FullCycleDone =>
        /\ MainTable(db.cm) = Range(hist.staged)
        /\ Cardinality(MainTable(db.cm)) = Len(hist.staged)
        /\ loc.staging_table = TargetOf("epar_index")

\* a FULL cycle of two rows over a table whose rows are all gone
C14_Witness ==
    /\ FullCycleDone
    /\ Len(hist.staged) = 2
    /\ MainTable(hist.pre) # {}
    /\ \A o \in MainTable(hist.pre) : o \notin MainTable(db.cm)

\* the step is a call of finalize by the caller of the adapter
FinalizeStep ==
    /\ pc = "adapter_loading"
    /\ calls' = Append(calls, <<"finalize", loc.target_table>>)

\* C17: a finalize with strategy DELTA that lacks the staging table, the
\* model or the key columns raises ValueError and leaves the adapter as it
\* was: the tables, the staging relations, the transaction and the committed
\* database
C17_FinalizeMissingArguments ==
    [][(FinalizeStep /\ loc'.call.load_strategy = "DELTA"
          /\ loc'.call.args # AllArgs)
          => /\ pc' = "adapter_raised"
             /\ exc' = Exception("ValueError", "adapter", "finalize")
             /\ db' = db]_vars

\* a finalize that raised ValueError with rows staged in an open transaction
C17_Witness ==
    /\ pc = "adapter_raised"
    /\ exc = Exception("ValueError", "adapter", "finalize")
    /\ loc.load_strategy = "DELTA"
    /\ db.txn = "open"
    /\ db.wk.stg["epar_index"].rows # <<>>
    /\ db.wk.stg["epar_index"].rows = hist.staged

\* the positions of run_etl after log_pipeline_start
RunPositions ==
    {"prepare", "stream", "orgs", "subs", "docs", "load", "finalize", "links",
     "success", "except", "returned", "raised"}

\* C18: with a load strategy that is neither FULL nor DELTA, prepare_load
\* raises ValueError and changes nothing, finalize does not return, and
\* run_etl raises ValueError with the committed database, ledger included,
\* as it was before the run
C18_UnknownStrategyRejected ==
    /\ (pc = "adapter_raised" /\ exc.op = "prepare_load"
          /\ loc.load_strategy = UnknownStrategy)
          => /\ exc.kind = "ValueError"
             /\ db.txn = "idle"
             /\ db.wk = hist.pre
             /\ db.cm = hist.pre
    /\ pc = "adapter_loading" => loc.load_strategy # UnknownStrategy
    /\ pc = "adapter_finalized" => loc.call.load_strategy # UnknownStrategy
    /\ (pc \in RunPositions /\ loc.load_strategy = UnknownStrategy)
          => /\ db.cm = hist.pre
             /\ pc = "raised" => raised.kind = "ValueError"

\* C19: after prepare_load with strategy DELTA the staging relation exists
\* and holds the rows loaded since, none at first, whatever a staging
\* relation of that name held before, and the tables are as they were; when
\* the cycle has returned every row of the table is a staged row or a row of
\* before, deactivated or not
C19_StagingStartsEmpty ==
    /\ (pc = "adapter_loading" /\ loc.load_strategy = "DELTA") =>
          /\ loc.staging_table = StagingOf("epar_index")
          /\ db.wk.stg["epar_index"] = [exists |-> TRUE, rows |-> hist.staged]
          /\ db.wk.tbl = hist.pre.tbl
    /\ DeltaCycleDone =>
          \A r \in MainTable(db.cm) :
             \/ r \in Range(hist.staged)
             \/ r \in MainTable(hist.pre)
             \/ [r EXCEPT !.is_active = TRUE] \in MainTable(hist.pre)

\* a cycle that returned on a database where a staging relation with a row
\* had been left behind, and that row is not in the table
C19_Witness ==
    /\ DeltaCycleDone
    /\ hist.staged # <<>>
    /\ hist.pre.stg["epar_index"].exists
    /\ hist.pre.stg["epar_index"].rows # <<>>
    /\ \A r \in Range(hist.pre.stg["epar_index"].rows) :
          r \notin MainTable(db.cm)

\* C20: a rollback has raised nothing, whether it was called before connect,
\* on an idle connection, after a commit, after close, or after a
\* bulk_load_batch that failed or was not finalized; after it the connection
\* sees the committed database, and when the cycle had not been finalized
\* the table is as it was before prepare_load
C20_RollbackSafe ==
    pc = "adapter_rolled_back" =>
        /\ raised = NoException
        /\ db.txn = "idle"
        /\ db.wk = db.cm
        /\ loc.before \in {"adapter_loading", "adapter_raised"}
              => MainTable(db.cm) = MainTable(hist.pre)

(***************************************************************************)
(* Properties of run_etl, under Spec: documents, links, duplicates.        *)
(***************************************************************************)
\* C21: no document row, committed or pending, belongs to a document whose
\* fetch or download failed in the last batch; the only exception that leaves
\* _process_documents is a database error of its own load cycle; and a run
\* that has returned after such a failure has its ledger row at SUCCESS and
\* every record it bulk-loaded in the committed main table
C21_DocumentFailureIsolated ==
    /\ \A d \in hist.failed :
          /\ ~\E row \in db.cm.tbl["epar_documents"] : row.document_id = d
          /\ ~\E row \in db.wk.tbl["epar_documents"] : row.document_id = d
    /\ exc.step = "_process_documents" => exc.kind = "psycopg2.Error"
    /\ (pc = "returned" /\ hist.failed # {}) =>
          /\ raised = NoException
          /\ OwnRow.status = "SUCCESS"
          /\ \A i \in 1 .. Len(hist.staged) : hist.staged[i] \in MainTable(db.cm)

\* a run that returned after it loaded a record whose document failed, in
\* a batch where the document of another record was stored
C21_Witness ==
    /\ pc = "returned"
    /\ hist.failed # {}
    /\ hist.staged # <<>>
    /\ \E row \in db.cm.tbl["epar_documents"] :
          row.document_id[1] = loc.execution_id

(***************************************************************************)
(* _process_substance_links on its own: a caller that hands it link        *)
(* records twice on one connection, as two runs on one database do.        *)
(*   loc   the records of the current call, those of the call before it    *)
(*         and the failure the backend was made to produce                 *)
(*   hist  pre: the committed database before the current call             *)
(***************************************************************************)
Edges == {EparSubstanceLink(id, u) : id \in EparIds, u \in {"S1", "S2"}}

RECURSIVE SeqsUpTo(_, _)
\* the sequences over S of length at most n
SeqsUpTo(S, n) ==
    IF n = 0 THEN {<<>>}
    ELSE LET shorter == SeqsUpTo(S, n - 1)
         IN  shorter \cup {Append(q, x) : q \in shorter, x \in S}

LinkLists == SeqsUpTo(Edges, MaxLinks)

InitLinksLoc == [links |-> <<>>, previous |-> <<>>, inject |-> "none"]

InitLinks ==
    /\ \E cm \in Seeds : db = connect(New(cm))
    /\ pc = "links_idle"
    /\ loc = InitLinksLoc
    /\ calls = <<>>
    /\ exc = NoException
    /\ raised = NoException
    /\ hist = InitHist

LinksLoad(substance_links, inj) ==
    /\ pc \in {"links_idle", "links_once"}
    /\ LET r == process_substance_links(db, substance_links, inj)
       IN  /\ substance_links = <<>> => inj = "none"
           /\ db' = r.a
           /\ calls' = r.calls
           /\ IF r.err # "none"
              THEN /\ pc' = "links_raised"
                   /\ exc' = Exception(r.err, "_process_substance_links", r.op)
              ELSE /\ pc' = IF pc = "links_idle" THEN "links_once"
                            ELSE "links_twice"
                   /\ exc' = exc
    /\ loc' = [links |-> substance_links, previous |-> loc.links, inject |-> inj]
    /\ hist' = [hist EXCEPT !.pre = db.cm]
    /\ UNCHANGED raised

NextLinks ==
    \E substance_links \in LinkLists, inj \in Injections :
        LinksLoad(substance_links, inj)

SpecLinks == InitLinks /\ [][NextLinks]_vars

LinkTable(cm) == cm.tbl["epar_substance_link"]

\* C22: a load of link records fails only when the backend fails; after it
\* the link table holds the edges it held before and the edges of the
\* records, one row for each, and a second load of the same edges leaves
\* the table as the first load left it
C22_LinksInsertOnly ==
    /\ pc = "links_raised" => loc.inject # "none"
    /\ pc \in {"links_once", "links_twice"} =>
          /\ LinkTable(db.cm) = LinkTable(hist.pre) \cup Range(loc.links)
          /\ \A l, m \in LinkTable(db.cm) :
                KeyOf(l, PrimaryKey("epar_substance_link"))
                   = KeyOf(m, PrimaryKey("epar_substance_link")) => l = m
    /\ (pc = "links_twice" /\ Range(loc.links) = Range(loc.previous)) =>
          LinkTable(db.cm) = LinkTable(hist.pre)

\* the second load of a list that holds one edge twice, on a database whose
\* link table held another edge before the first load
C22_Witness ==
    /\ pc = "links_twice"
    /\ loc.links = loc.previous
    /\ Len(loc.links) = 2
    /\ loc.links[1] = loc.links[2]
    /\ loc.links[1] \in LinkTable(hist.pre)
    /\ Cardinality(LinkTable(db.cm)) = 2

(***************************************************************************)
(* Properties of run_etl, under Spec: the ledger row of the run.           *)
(***************************************************************************)
\* C23: from the return of log_pipeline_start on, whatever the run does or
\* rolls back, the committed ledger holds the rows it held before the run,
\* unchanged, and one more row, whose position is the execution id that was
\* returned (so the id of no earlier row), with the strategy of the run and,
\* until the run ends, the status RUNNING
C23_StartRowCommitted ==
    pc # "idle" =>
        LET log == db.cm.pipeline_execution
            before == hist.pre.pipeline_execution
        IN  /\ Len(log) = Len(before) + 1
            /\ loc.execution_id = Len(log)
            /\ loc.execution_id \notin DOMAIN before
            /\ \A i \in DOMAIN before : log[i] = before[i]
            /\ log[loc.execution_id].load_strategy = loc.load_strategy
            /\ pc \notin {"returned", "raised"} =>
                  log[loc.execution_id] =
                      LedgerRow("RUNNING", loc.load_strategy, None, None, FALSE)

\* a run on a database with earlier ledger rows that was rolled back after a
\* failed bulk load of the main table and has raised
C23_Witness ==
    /\ pc = "raised"
    /\ exc.op = "bulk_load_batch"
    /\ exc.step = "load"
    /\ hist.pre.pipeline_execution # <<>>
    /\ MainTable(db.cm) = MainTable(hist.pre)
    /\ Len(db.cm.pipeline_execution) = Len(hist.pre.pipeline_execution) + 1

(***************************************************************************)
(* Properties of run_etl, under Spec: what DELTA runs keep.                *)
(***************************************************************************)
\* C24: at every point of a DELTA run, and after it has returned or raised,
\* every epar_id the committed main table held before the run is still in
\* the committed main table and in the table as the connection sees it
C24_NoPhysicalDelete ==
    (pc # "idle" /\ loc.load_strategy = "DELTA") =>
        /\ Ids(MainTable(hist.pre)) \subseteq Ids(MainTable(db.cm))
        /\ Ids(MainTable(hist.pre)) \subseteq Ids(MainTable(db.wk))

\* a DELTA run that returned after it merged records, on a database that
\* held a record the source no longer delivered
C24_Witness ==
    /\ pc = "returned"
    /\ loc.load_strategy = "DELTA"
    /\ hist.staged # <<>>
    /\ \E o \in MainTable(hist.pre) :
          /\ o.epar_id \notin Ids(Range(hist.staged))
          /\ o.epar_id \in Ids(MainTable(db.cm))

\* C25: at every point of a DELTA run and after it, a row of the committed
\* main table carries a last_update_date_source that is not older than the
\* one the row of the same epar_id carried before the run
C25_RevisionDateMonotone ==
    (pc # "idle" /\ loc.load_strategy = "DELTA") =>
        \A o \in MainTable(hist.pre) : \A r \in MainTable(db.cm) :
            r.epar_id = o.epar_id =>
                ~later(o.last_update_date_source, r.last_update_date_source)

(***************************************************************************)
(* Properties of run_etl, under Spec: a product number that occurs more    *)
(* than once among the accepted records of a run.                          *)
(***************************************************************************)
\* the records the run has accepted so far: those it bulk-loaded and those
\* of the batch in hand
Accepted == hist.staged \o Column(loc.batch, "epar")

\* C26: in a FULL run the bulk load of a batch of accepted records does not
\* fail on the records themselves, also when a product number occurs twice
\* among the accepted records; and when the run has returned, the main
\* table holds exactly one row for each accepted product number, the
\* accepted record with the latest revision date
C26_FullRunDuplicates ==
    /\ (loc.load_strategy = "FULL" /\ pc = "load") =>
          ~CopyFails(db, Column(loc.batch, "epar"), loc.main_staging_table)
    /\ (loc.load_strategy = "FULL" /\ pc = "returned") =>
          /\ Ids(MainTable(db.cm)) = Ids(Range(Accepted))
          /\ \A r \in MainTable(db.cm) :
                /\ r \in Range(Accepted)
                /\ \A q \in Range(Accepted) :
                      q.epar_id = r.epar_id =>
                         ~later(q.last_update_date_source,
                                r.last_update_date_source)
          /\ \A r, q \in MainTable(db.cm) : r.epar_id = q.epar_id => r = q

(***************************************************************************)
(* Two run_etl FULL runs on one database, each on its own connection,      *)
(* over the same source of one record without a summary page (so that      *)
(* _process_documents has nothing to do).                                  *)
(*   db    cm: the committed database; pend[p]: the transaction of         *)
(*         process p, that is whether its TRUNCATE of epar_index is        *)
(*         pending, the rows its COPY has inserted, its status             *)
(*   pc, loc, exc, raised   one entry for each process                     *)
(*   hist  source: the record both runs read                               *)
(* PostgreSQL makes a statement wait for the transaction of the other      *)
(* connection: TRUNCATE for every lock on the table and on the tables it   *)
(* cascades to, COPY and the merge for a pending TRUNCATE, COPY for a      *)
(* pending row with the same key.  A step that has to wait is not enabled. *)
(***************************************************************************)
Procs == {1, 2}

Other(p) == CHOOSE q \in Procs : q # p

NoPending == [trunc |-> FALSE, rows |-> {}, txn |-> "idle"]

\* the tables TRUNCATE TABLE epar_index ... CASCADE empties and locks
Family == {"epar_index"} \cup Referencing("epar_index")

\* the database a statement of a connection sees: what is committed, under
\* the pending changes of its own transaction
Visible(cm, pd) ==
    [cm EXCEPT !.tbl =
        [t \in Tables |->
            IF t = "epar_index"
            THEN (IF pd.trunc THEN {} ELSE cm.tbl[t]) \cup pd.rows
            ELSE IF pd.trunc /\ t \in Family THEN {} ELSE cm.tbl[t]]]

\* the adapter of process p
View(p) ==
    [cm |-> db.cm, wk |-> Visible(db.cm, db.pend[p]),
     txn |-> db.pend[p].txn, conn |-> "open"]

\* the database after an adapter call of process p that left the adapter
\* state a and, when its transaction is still open, the pending changes pd
Settle(p, a, pd) ==
    db' = [cm |-> a.cm,
           pend |-> [db.pend EXCEPT ![p] =
                        IF a.txn = "idle" THEN NoPending ELSE pd]]

\* the sources of the two runs: one valid record, with or without a holder
\* and a substance that SPOR resolves
SingleRecords == {Raw("A", d, k) : d \in Dates, k \in {"ok", "org"}}

InitConcurrent ==
    /\ \E cm \in Seeds : db = [cm |-> cm, pend |-> [p \in Procs |-> NoPending]]
    /\ pc = [p \in Procs |-> "idle"]
    /\ loc = [p \in Procs |-> [InitLoc EXCEPT !.load_strategy = "FULL"]]
    /\ calls = <<>>
    /\ exc = [p \in Procs |-> NoException]
    /\ raised = [p \in Procs |-> NoException]
    /\ \E r \in SingleRecords : hist = [source |-> r]

\* an exception leaves the try block of process p
ConcurrentRaise(p, a, kind, step, op) ==
    /\ Settle(p, a, db.pend[p])
    /\ pc' = [pc EXCEPT ![p] = "except"]
    /\ exc' = [exc EXCEPT ![p] = Exception(kind, step, op)]
    /\ UNCHANGED <<loc, calls, raised, hist>>

\* connect and log_pipeline_start
ConcurrentStart(p) ==
    /\ pc[p] = "idle"
    /\ LET s == log_pipeline_start(View(p), "FULL")
       IN  /\ Settle(p, s.a, db.pend[p])
           /\ loc' = [loc EXCEPT ![p].execution_id = s.ret]
    /\ pc' = [pc EXCEPT ![p] = "prepare"]
    /\ UNCHANGED <<calls, exc, raised, hist>>

\* prepare_load of the main table, then the only batch of the run
ConcurrentPrepare(p) ==
    /\ pc[p] = "prepare"
    /\ ~db.pend[Other(p)].trunc
    /\ db.pend[Other(p)].rows = {}
    /\ LET pr == prepare_load(View(p), "FULL", "epar_index", FALSE)
       IN  /\ Settle(p, pr.a, [db.pend[p] EXCEPT !.trunc = TRUE,
                                                 !.txn = pr.a.txn])
           /\ loc' = [loc EXCEPT
                        ![p].main_staging_table = pr.ret,
                        ![p].batch = BatchOf(<<hist.source>>, None),
                        ![p].exhausted = TRUE]
    /\ pc' = [pc EXCEPT ![p] = "orgs"]
    /\ UNCHANGED <<calls, exc, raised, hist>>

\* _process_organizations and _process_substances
ConcurrentMasterData(p) ==
    /\ pc[p] = "orgs"
    /\ LET o == process_organizations(
                    View(p), Flatten(Column(loc[p].batch, "organizations")),
                    "none")
           u == process_substances(
                    o.a, Flatten(Column(loc[p].batch, "substances")), "none")
       IN  IF o.err # "none"
           THEN ConcurrentRaise(p, o.a, o.err, "_process_organizations", o.op)
           ELSE IF u.err # "none"
           THEN ConcurrentRaise(p, u.a, u.err, "_process_substances", u.op)
           ELSE /\ Settle(p, u.a, db.pend[p])
                /\ pc' = [pc EXCEPT ![p] = "load"]
                /\ loc' = [loc EXCEPT ![p].all_substance_links =
                             Flatten(Column(loc[p].batch, "substance_links"))]
                /\ UNCHANGED <<calls, exc, raised, hist>>

\* bulk_load_batch of the batch into epar_index
ConcurrentLoad(p) ==
    /\ pc[p] = "load"
    /\ ~db.pend[Other(p)].trunc
    /\ LET epar_records == Column(loc[p].batch, "epar")
       IN  /\ \A i \in 1 .. Len(epar_records) :
                 \A r \in db.pend[Other(p)].rows :
                    r.epar_id # epar_records[i].epar_id
           /\ LET b == bulk_load_batch(View(p), epar_records,
                                       loc[p].main_staging_table, FALSE)
              IN  IF b.err # "none"
                  THEN ConcurrentRaise(p, b.a, b.err, "load", "bulk_load_batch")
                  ELSE /\ Settle(p, b.a,
                                 [db.pend[p] EXCEPT
                                     !.rows = db.pend[p].rows
                                                \cup Range(epar_records),
                                     !.txn = b.a.txn])
                       /\ pc' = [pc EXCEPT ![p] = "finalize"]
                       /\ loc' = [loc EXCEPT ![p].total_loaded_count = b.ret,
                                             ![p].new_high_water_mark =
                                    advance_high_water_mark(None, epar_records)]
                       /\ UNCHANGED <<calls, exc, raised, hist>>

\* finalize of the main table
ConcurrentFinalize(p) ==
    /\ pc[p] = "finalize"
    /\ LET f == finalize(View(p), "FULL", "epar_index", AllArgs,
                         {"epar_id"}, NoSettings, FALSE)
       IN  IF f.err # "none"
           THEN ConcurrentRaise(p, f.a, f.err, "finalize", "finalize")
           ELSE /\ Settle(p, f.a, db.pend[p])
                /\ pc' = [pc EXCEPT ![p] = "links"]
                /\ UNCHANGED <<loc, calls, exc, raised, hist>>

\* _process_substance_links
ConcurrentLinks(p) ==
    /\ pc[p] = "links"
    /\ loc[p].all_substance_links # <<>> => ~db.pend[Other(p)].trunc
    /\ LET r == process_substance_links(View(p), loc[p].all_substance_links,
                                        "none")
       IN  IF r.err # "none"
           THEN ConcurrentRaise(p, r.a, r.err, "_process_substance_links", r.op)
           ELSE /\ Settle(p, r.a, db.pend[p])
                /\ pc' = [pc EXCEPT ![p] = "success"]
                /\ UNCHANGED <<loc, calls, exc, raised, hist>>

\* log_pipeline_success, close, return
ConcurrentSuccess(p) ==
    /\ pc[p] = "success"
    /\ LET s == log_pipeline_success(View(p), loc[p].execution_id,
                                     loc[p].total_loaded_count,
                                     loc[p].new_high_water_mark)
       IN  Settle(p, close(s.a), db.pend[p])
    /\ pc' = [pc EXCEPT ![p] = "returned"]
    /\ UNCHANGED <<loc, calls, exc, raised, hist>>

\* the except clause: log_pipeline_failure, rollback, close, re-raise
ConcurrentFailure(p) ==
    /\ pc[p] = "except"
    /\ LET l == log_pipeline_failure(View(p), loc[p].execution_id)
       IN  IF l.err # "none"
           THEN /\ Settle(p, close(l.a), db.pend[p])
                /\ raised' = [raised EXCEPT ![p] =
                                Exception(l.err, "except", "log_pipeline_failure")]
           ELSE /\ Settle(p, close(rollback(l.a)), db.pend[p])
                /\ raised' = [raised EXCEPT ![p] = exc[p]]
    /\ pc' = [pc EXCEPT ![p] = "raised"]
    /\ UNCHANGED <<loc, calls, exc, hist>>

NextConcurrent ==
    \E p \in Procs :
        \/ ConcurrentStart(p)
        \/ ConcurrentPrepare(p)
        \/ ConcurrentMasterData(p)
        \/ ConcurrentLoad(p)
        \/ ConcurrentFinalize(p)
        \/ ConcurrentLinks(p)
        \/ ConcurrentSuccess(p)
        \/ ConcurrentFailure(p)

SpecConcurrent == InitConcurrent /\ [][NextConcurrent]_vars

\* C27: of two concurrent FULL runs over the same single record neither
\* raises, and when both have returned the committed main table holds the
\* record of the source and nothing else
C27_ConcurrentFullRuns ==
    /\ \A p \in Procs : pc[p] \notin {"except", "raised"}
    /\ (\A p \in Procs : pc[p] = "returned") =>
          MainTable(db.cm) = Range(Column(BatchOf(<<hist.source>>, None), "epar"))

(***************************************************************************)
(* A DELTA run_etl that fails, followed by a second DELTA run_etl over the *)
(* same source with the same settings.  The steps of a run are those of    *)
(* Spec; the source is fixed before the first run, and the backend is      *)
(* made to fail in the first run only.                                     *)
(*   hist  as under Spec, and: source, the rows of the source file; run,   *)
(*         the number of the run; first, the committed database before     *)
(*         the first run                                                   *)
(***************************************************************************)
RetryRows == {r \in RawRows : r.kind \in {"ok", "org"}}

\* the source files: no product number twice
RetrySources ==
    {<<>>} \cup {<<r>> : r \in RetryRows}
    \cup {<<rq[1], rq[2]>> :
              rq \in {x \in RetryRows \X RetryRows :
                         x[1].product_number # x[2].product_number}}

InitRetry ==
    /\ \E cm \in Seeds : db = New(cm)
    /\ pc = "idle"
    /\ loc = InitLoc
    /\ calls = <<>>
    /\ exc = NoException
    /\ raised = NoException
    /\ \E source \in RetrySources :
          hist = [pre |-> EmptyDb, rejected |-> {}, staged |-> <<>>,
                  failed |-> {}, source |-> source, run |-> 0,
                  first |-> EmptyDb]

\* the first run_etl up to and including log_pipeline_start
RetryFirst(batch_size) ==
    /\ pc = "idle"
    /\ LET s == log_pipeline_start(connect(db), "DELTA")
       IN  /\ db' = s.a
           /\ loc' = [InitLoc EXCEPT !.load_strategy = "DELTA",
                                     !.batch_size = batch_size,
                                     !.execution_id = s.ret]
    /\ pc' = "prepare"
    /\ calls' = <<<<"connect", "">>, <<"log_pipeline_start", "">>>>
    /\ UNCHANGED <<exc, raised>>
    /\ hist' = [hist EXCEPT !.pre = db.cm, !.first = db.cm, !.run = 1]

\* the first run has raised: the second run_etl, on a new adapter, up to and
\* including log_pipeline_start
RetrySecond ==
    /\ pc = "raised"
    /\ hist.run = 1
    /\ LET s == log_pipeline_start(connect(New(db.cm)), "DELTA")
       IN  /\ db' = s.a
           /\ loc' = [InitLoc EXCEPT !.load_strategy = "DELTA",
                                     !.batch_size = loc.batch_size,
                                     !.execution_id = s.ret]
    /\ pc' = "prepare"
    /\ calls' = <<<<"connect", "">>, <<"log_pipeline_start", "">>>>
    /\ exc' = NoException
    /\ raised' = NoException
    /\ hist' = [hist EXCEPT !.pre = db.cm, !.run = 2, !.rejected = {},
                            !.staged = <<>>, !.failed = {}]

\* _batch_iterator pulls the next row of the source file
RetryPull ==
    /\ loc.pulled < Len(hist.source)
    /\ Pull(hist.source[loc.pulled + 1])

RetryEndOfStream ==
    /\ loc.pulled = Len(hist.source)
    /\ EndOfStream

\* the backend failures of the first run
RetryInjections == IF hist.run = 1 THEN Injections ELSE {"none"}
RetryInject == IF hist.run = 1 THEN BOOLEAN ELSE {FALSE}

NextRetry ==
    \/ \E n \in BatchSizes : RetryFirst(n)
    \/ RetrySecond
    \/ \E inject \in RetryInject : PrepareMain(inject)
    \/ RetryPull
    \/ RetryEndOfStream
    \/ hist.run = 1 /\ ExtractFails
    \/ \E inj \in RetryInjections : ProcessOrganizations(inj)
    \/ \E inj \in RetryInjections : ProcessSubstances(inj)
    \/ \E inj \in RetryInjections :
          ProcessDocuments(IF inj = "none" THEN {} ELSE 1 .. Len(loc.batch),
                           {}, inj)
    \/ \E inject \in RetryInject : LoadBatch(inject)
    \/ \E inject \in RetryInject : FinalizeMain(inject)
    \/ \E inj \in RetryInjections : ProcessLinks(inj)
    \/ LogSuccess
    \/ HandleFailure

SpecRetry == InitRetry /\ [][NextRetry]_vars

\* the committed database a single successful DELTA run over the source
\* leaves when it starts where the failed run started
SingleRun == run_once(hist.first, "DELTA", hist.source)

\* C28: the second run reads the cursor the ledger gave before the failed
\* run, and when it has returned, the committed main table and the
\* high-water-mark of its ledger row are those of a single successful DELTA
\* run over the same source from the database before the failed run
C28_RetryAfterFailure ==
    /\ (hist.run = 2 /\ pc \notin {"idle", "prepare"} /\ exc.step # "prepare") =>
          loc.high_water_mark =
              get_latest_high_water_mark(connect(New(hist.first))).ret
    /\ (hist.run = 2 /\ pc = "returned") =>
          /\ MainTable(db.cm) = MainTable(SingleRun)
          /\ OwnRow.status = "SUCCESS"
          /\ OwnRow.high_water_mark =
                SingleRun.pipeline_execution[
                    Len(SingleRun.pipeline_execution)].high_water_mark

\* a second run that returned after it merged a record and changed the main
\* table, where the first run was logged FAILED and the ledger held a cursor
C28_Witness ==
    /\ hist.run = 2
    /\ pc = "returned"
    /\ hist.staged # <<>>
    /\ loc.high_water_mark # None
    /\ db.cm.pipeline_execution[loc.execution_id - 1].status = "FAILED"
    /\ MainTable(db.cm) # MainTable(hist.first)

\* C29: in a DELTA run the merge of finalize does not fail on the staged
\* records themselves, also when a product number was accepted twice, in
\* one batch or in two; and when the run has returned, the main table holds
\* for each accepted product number the last record accepted for it
C29_DeltaRunDuplicates ==
    /\ (loc.load_strategy = "DELTA" /\ pc = "finalize") =>
          ~MergeFails(db, "epar_index", db.wk.stg["epar_index"].rows,
                      model_fields("epar_index"), {"epar_id"})
    /\ (loc.load_strategy = "DELTA" /\ pc = "returned") =>
          \A i \in 1 .. Len(hist.staged) :
             (\A j \in (i + 1) .. Len(hist.staged) :
                 hist.staged[j].epar_id # hist.staged[i].epar_id)
                => hist.staged[i] \in MainTable(db.cm)

(***************************************************************************)
(* Properties of run_etl, under Spec: master data.                         *)
(***************************************************************************)
\* C30: a run bulk-loads organizations at most once and substances at most
\* once (SPOR resolves one organization id and one substance id, so every
\* such load stages that id), and no staging relation of master data holds
\* an external id twice
C30_MasterDataOncePerRun ==
    /\ CountCalls(<<"bulk_load_batch", "organizations">>) <= 1
    /\ CountCalls(<<"bulk_load_batch", "substances">>) <= 1
    /\ \A t \in {"organizations", "substances"} :
          /\ ~HasDuplicateKey(db.wk.stg[t].rows, PrimaryKey(t))
          /\ ~HasDuplicateKey(db.cm.stg[t].rows, PrimaryKey(t))

(***************************************************************************)
(* _process_documents on its own, link by link.  The caller hands it one   *)
(* or two records; the summary page of a record is not addressed           *)
(* ("no_url"), cannot be fetched ("fails") or is fetched ("ok") and holds  *)
(* links: "other" a link that is no document, "ok" a document whose        *)
(* download succeeds, "fail" a document whose download raises.             *)
(*   loc   the records, the position of the two loops, document_records,   *)
(*         the calls of download_document_and_hash as <<record, link>>     *)
(*   hist  pre: the committed database before the call                     *)
(***************************************************************************)
LinkKinds == {"other", "ok", "fail"}

Pages ==
    {[fetch |-> "no_url", links |-> <<>>], [fetch |-> "fails", links |-> <<>>]}
    \cup {[fetch |-> "ok", links |-> l] : l \in SeqsUpTo(LinkKinds, MaxPageLinks)}

\* the processed_records of a call: product A, or products A and B
PageRecords ==
    {<<[epar_id |-> "A", page |-> p]>> : p \in Pages}
    \cup {<<[epar_id |-> "A", page |-> p], [epar_id |-> "B", page |-> q]>> :
             p \in Pages, q \in Pages}

InitDocs ==
    /\ \E cm \in Seeds : /\ db = connect(New(cm))
                         /\ hist = [InitHist EXCEPT !.pre = cm]
    /\ \E records \in PageRecords :
          loc = [records |-> records, i |-> 1, j |-> 0,
                 document_records |-> <<>>, downloads |-> <<>>,
                 inject |-> "none"]
    /\ pc = "docs_record"
    /\ calls = <<>>
    /\ exc = NoException
    /\ raised = NoException

\* the head of the loop over the records: a record without an http address
\* is skipped; the page is fetched, and a fetch that raises is caught and
\* the record skipped
DocsFetch ==
    /\ pc = "docs_record"
    /\ loc.i <= Len(loc.records)
    /\ IF loc.records[loc.i].page.fetch = "ok"
       THEN /\ pc' = "docs_link"
            /\ loc' = [loc EXCEPT !.j = 1]
       ELSE /\ pc' = "docs_record"
            /\ loc' = [loc EXCEPT !.i = loc.i + 1]
    /\ UNCHANGED <<db, calls, exc, raised, hist>>

\* one turn of the loop over the links of the page, inside the try block of
\* the record: a link that matches is downloaded and its EparDocument
\* appended; a download that raises leaves the loop over the links and is
\* caught by the except clause of the record, which continues with the next
\* record
DocsLink ==
    /\ pc = "docs_link"
    /\ LET record == loc.records[loc.i]
           links == record.page.links
       IN  IF loc.j > Len(links)
           THEN /\ pc' = "docs_record"
                /\ loc' = [loc EXCEPT !.i = loc.i + 1]
           ELSE IF links[loc.j] = "other"
           THEN /\ pc' = "docs_link"
                /\ loc' = [loc EXCEPT !.j = loc.j + 1]
           ELSE IF links[loc.j] = "ok"
           THEN /\ pc' = "docs_link"
                /\ loc' = [loc EXCEPT
                             !.j = loc.j + 1,
                             !.downloads = Append(loc.downloads, <<loc.i, loc.j>>),
                             !.document_records =
                                 Append(loc.document_records,
                                        EparDocument(<<0, loc.i, loc.j>>,
                                                     record.epar_id))]
           ELSE /\ pc' = "docs_record"
                /\ loc' = [loc EXCEPT
                             !.i = loc.i + 1,
                             !.downloads = Append(loc.downloads, <<loc.i, loc.j>>)]
    /\ UNCHANGED <<db, calls, exc, raised, hist>>

\* after the loop: the document records are loaded, or the function returns
\* 0 when there is none
DocsLoad(inj) ==
    /\ pc = "docs_record"
    /\ loc.i > Len(loc.records)
    /\ LET r == process_documents(db, loc.document_records, inj)
       IN  /\ loc.document_records = <<>> => inj = "none"
           /\ db' = r.a
           /\ calls' = r.calls
           /\ IF r.err # "none"
              THEN /\ pc' = "docs_raised"
                   /\ exc' = Exception(r.err, "_process_documents", r.op)
              ELSE /\ pc' = "docs_done"
                   /\ exc' = exc
    /\ loc' = [loc EXCEPT !.inject = inj]
    /\ UNCHANGED <<raised, hist>>

NextDocs ==
    \/ DocsFetch
    \/ DocsLink
    \/ \E inj \in Injections : DocsLoad(inj)

SpecDocs == InitDocs /\ [][NextDocs]_vars

DocumentTable(cm) == cm.tbl["epar_documents"]

\* the links of the pages that were fetched, as <<record, link>>, of a kind
LinksOfKind(records, kinds) ==
    {<<i, j>> \in (1 .. Len(records)) \X (1 .. MaxPageLinks + 1) :
        /\ records[i].page.fetch = "ok"
        /\ j <= Len(records[i].page.links)
        /\ records[i].page.links[j] \in kinds}

\* C31: when _process_documents has returned, every document link of every
\* page that was fetched has been handed to the download, the links after
\* one whose download raised included, and the document table holds, next
\* to the rows of before, one row for each download that succeeded
C31_DownloadFailureIsolated ==
    pc = "docs_done" =>
        /\ Range(loc.downloads) = LinksOfKind(loc.records, {"ok", "fail"})
        /\ DocumentTable(db.cm) =
              DocumentTable(hist.pre) \cup
              {EparDocument(<<0, l[1], l[2]>>, loc.records[l[1]].epar_id) :
                  l \in LinksOfKind(loc.records, {"ok"})}

(***************************************************************************)
(* Properties of run_etl, under Spec: documents and the main table.        *)
(***************************************************************************)
\* C32: every committed row of epar_documents names a committed row of
\* epar_index, and a document row the run has committed belongs to a record
\* of the run whose row is committed in epar_index as the run accepted it
C32_DocumentsAfterMainCommit ==
    /\ \A d \in DocumentTable(db.cm) :
          \E r \in MainTable(db.cm) : r.epar_id = d.epar_id
    /\ \A d \in DocumentTable(db.cm) \ DocumentTable(hist.pre) :
          \E r \in Range(Accepted) :
              r.epar_id = d.epar_id /\ r \in MainTable(db.cm)

(***************************************************************************)
(* Properties of run_etl, under Spec: the SUCCESS row and the data.        *)
(***************************************************************************)
\* C33: when the run is about to write SUCCESS and when it has written it,
\* the records it bulk-loaded and the links it collected are committed and
\* no transaction is open; finalize of epar_index was called before
\* log_pipeline_success, and so was the finalize of the link load when there
\* is a link; the high-water-mark of the SUCCESS row is the cursor the run
\* started from or the date of a committed row of the main table
C33_SuccessAfterDataCommitted ==
    /\ pc \in {"success", "returned"} =>
          /\ \A i \in 1 .. Len(hist.staged) : hist.staged[i] \in MainTable(db.cm)
          /\ Range(loc.all_substance_links) \subseteq LinkTable(db.cm)
          /\ db.wk = db.cm
    /\ pc = "returned" =>
          /\ OwnRow.status = "SUCCESS"
          /\ \A s \in Positions(<<"log_pipeline_success", "">>) :
                /\ \E f \in Positions(<<"finalize", "epar_index">>) : f < s
                /\ loc.all_substance_links # <<>> =>
                      \E l \in Positions(<<"finalize", "epar_substance_link">>) :
                          l < s
          /\ \/ OwnRow.high_water_mark = to_timestamp(loc.high_water_mark)
             \/ \E r \in MainTable(db.cm) :
                   to_timestamp(r.last_update_date_source) = OwnRow.high_water_mark

\* a DELTA run that started from a cursor, committed a newer record with a
\* link and logged a later high-water-mark
C33_Witness ==
    /\ pc = "returned"
    /\ loc.load_strategy = "DELTA"
    /\ loc.high_water_mark # None
    /\ loc.all_substance_links # <<>>
    /\ later(OwnRow.high_water_mark, loc.high_water_mark)
    /\ CountCalls(<<"finalize", "epar_substance_link">>) = 1

(***************************************************************************)
(* Properties of the ledger, under SpecLedger: what a write leaves alone.  *)
(***************************************************************************)
\* C34: a step of the ledger keeps every row it had, in place, with its
\* load_strategy; it changes at most one of them; a row it changes is
\* closed, as FAILED with the records_processed and the high_water_mark it
\* had (null for a row that was RUNNING), or as SUCCESS with a
\* records_processed
C34_LedgerWriteFrame ==
    [][LET old == db.cm.pipeline_execution
           new == db'.cm.pipeline_execution
       IN  /\ Len(new) >= Len(old)
           /\ \A i \in 1 .. Len(old) :
                 /\ new[i].load_strategy = old[i].load_strategy
                 /\ new[i] # old[i] =>
                       /\ \A j \in 1 .. Len(old) : j # i => new[j] = old[j]
                       /\ Len(new) = Len(old)
                       /\ new[i].ended
                       /\ new[i].status \in {"FAILED", "SUCCESS"}
                       /\ new[i].status = "FAILED" =>
                             /\ new[i].records_processed = old[i].records_processed
                             /\ new[i].high_water_mark = old[i].high_water_mark
                             /\ old[i].status = "RUNNING" =>
                                   /\ new[i].records_processed = None
                                   /\ new[i].high_water_mark = None
                       /\ new[i].status = "SUCCESS" =>
                             new[i].records_processed.kind = "int"]_vars

\* a ledger of two rows, the first closed as FAILED without a count or a
\* mark, the second closed as SUCCESS with both
C34_Witness ==
    /\ pc = "ledger"
    /\ Len(db.cm.pipeline_execution) = 2
    /\ db.cm.pipeline_execution[1].status = "FAILED"
    /\ db.cm.pipeline_execution[1].ended
    /\ db.cm.pipeline_execution[1].records_processed = None
    /\ db.cm.pipeline_execution[1].high_water_mark = None
    /\ db.cm.pipeline_execution[2].status = "SUCCESS"
    /\ db.cm.pipeline_execution[2].records_processed = Count(1)
    /\ db.cm.pipeline_execution[2].high_water_mark = datetime(1, 0)

(***************************************************************************)
(* Properties of run_etl, under Spec: records_processed.                   *)
(***************************************************************************)
\* C35: the running total of the run is the number of records it has
\* bulk-loaded into the main destination, whatever it loaded as master
\* data, documents and links, and when the run has returned that number is
\* the records_processed of its ledger row
C35_RecordsProcessed ==
    /\ loc.total_loaded_count = Len(hist.staged)
    /\ pc = "returned" => OwnRow.records_processed = Count(Len(hist.staged))

\* a run that returned after two batches of one record, having also loaded
\* an organization, a document and a link
C35_Witness ==
    /\ pc = "returned"
    /\ Len(hist.staged) = 2
    /\ CountCalls(<<"bulk_load_batch", "epar_index">>) = 2
    /\ CountCalls(<<"bulk_load_batch", "organizations">>) >= 1
    /\ CountCalls(<<"bulk_load_batch", "epar_documents">>) >= 1
    /\ CountCalls(<<"bulk_load_batch", "epar_substance_link">>) = 1
    /\ OwnRow.records_processed = Count(2)

(***************************************************************************)
(* Properties of run_etl, under Spec: staging relations.                   *)
(***************************************************************************)
\* C36: when run_etl has returned or raised, the committed database holds
\* no staging relation that it did not hold before the run
C36_StagingTransient ==
    pc \in {"returned", "raised"} =>
        \A t \in Tables : db.cm.stg[t].exists => hist.pre.stg[t].exists

(***************************************************************************)
(* _batch_iterator on its own: the generator is driven over an input of    *)
(* at most MaxItems items with a batch_size of at least 1.                 *)
(*   loc   the input, the batch_size, the number of items consumed, the    *)
(*         local batch and the batches yielded so far                      *)
(***************************************************************************)
Items == 1 .. 3
ItemLists == SeqsUpTo(Items, MaxItems)
IteratorSizes == 1 .. MaxItems

\* the test `len(batch) >= batch_size` passing one item late
batch_is_full_late(batch, batch_size) == Len(batch) > batch_size

\* the test that ends a batch
batch_is_full(batch, batch_size) == Len(batch) >= batch_size

InitBatches ==
    /\ \E items \in ItemLists, batch_size \in IteratorSizes :
          loc = [items |-> items, batch_size |-> batch_size, consumed |-> 0,
                 batch |-> <<>>, yielded |-> <<>>]
    /\ pc = "batching"
    /\ db = New(EmptyDb)
    /\ calls = <<>>
    /\ exc = NoException
    /\ raised = NoException
    /\ hist = InitHist

\* one turn of the for loop: the item is appended, and a batch that is full
\* is yielded and a new one started
BatchItem ==
    /\ pc = "batching"
    /\ loc.consumed < Len(loc.items)
    /\ LET batch == Append(loc.batch, loc.items[loc.consumed + 1])
       IN  loc' = IF batch_is_full(batch, loc.batch_size)
                  THEN [loc EXCEPT !.consumed = loc.consumed + 1,
                                   !.batch = <<>>,
                                   !.yielded = Append(loc.yielded, batch)]
                  ELSE [loc EXCEPT !.consumed = loc.consumed + 1,
                                   !.batch = batch]
    /\ UNCHANGED <<db, pc, calls, exc, raised, hist>>

\* the input is exhausted: a batch that holds items is yielded
BatchRest ==
    /\ pc = "batching"
    /\ loc.consumed = Len(loc.items)
    /\ loc' = IF loc.batch # <<>>
              THEN [loc EXCEPT !.batch = <<>>,
                               !.yielded = Append(loc.yielded, loc.batch)]
              ELSE loc
    /\ pc' = "batched"
    /\ UNCHANGED <<db, calls, exc, raised, hist>>

NextBatches == BatchItem \/ BatchRest

SpecBatches == InitBatches /\ [][NextBatches]_vars

\* C37: the batches yielded so far, followed by the batch in the making, are
\* the items consumed, in order; no batch yielded is empty; every batch
\* yielded while items are consumed holds batch_size items; and when the
\* generator has ended the batches hold the whole input, all of them of
\* batch_size items but the last, which holds between 1 and batch_size
C37_BatchIteratorPartitions ==
    /\ Flatten(loc.yielded) \o loc.batch = SubSeq(loc.items, 1, loc.consumed)
    /\ \A k \in 1 .. Len(loc.yielded) :
          /\ Len(loc.yielded[k]) >= 1
          /\ Len(loc.yielded[k]) <= loc.batch_size
          /\ (k < Len(loc.yielded) \/ pc = "batching") =>
                Len(loc.yielded[k]) = loc.batch_size
    /\ pc = "batching" => Len(loc.batch) < loc.batch_size
    /\ pc = "batched" =>
          /\ Flatten(loc.yielded) = loc.items
          /\ loc.items = <<>> <=> loc.yielded = <<>>

\* the generator has ended on three items and a batch_size of 2: a batch of
\* two and a last batch of one
C37_Witness ==
    /\ pc = "batched"
    /\ loc.batch_size = 2
    /\ Len(loc.yielded) = 2
    /\ Len(loc.yielded[1]) = 2
    /\ Len(loc.yielded[2]) = 1
    /\ loc.items = <<1, 2, 3>>

(***************************************************************************)
(* transform_and_validate on its own, lookup by lookup.  A raw record      *)
(* carries a product number or none, whether EparIndex validates it, and   *)
(* what the SPOR client does for its holder and for each of the names its  *)
(* substance string splits into: "match" it returns an entity, "no_match"  *)
(* it returns None, "raises" the call raises; "absent" is a record         *)
(* without a holder.                                                       *)
(*   loc   the records consumed, the tuples yielded and, for each tuple,   *)
(*         the position of the record it was yielded for                   *)
(***************************************************************************)
Lookups == {"match", "no_match", "raises"}
\* what the client does for the names one substance string splits into
NameLists == SeqsUpTo(Lookups, 2)

InputRecords ==
    {[product_number |-> "none", valid |-> TRUE, holder |-> "absent",
      names |-> <<>>],
     [product_number |-> "A", valid |-> FALSE, holder |-> "absent",
      names |-> <<>>]}
    \cup {[product_number |-> "A", valid |-> TRUE, holder |-> h, names |-> n] :
             h \in Lookups \cup {"absent"}, n \in NameLists}

\* the identifier SPOR returns for the k-th name of a substance string
SmsId(k) == IF k = 1 THEN "S1" ELSE "S2"

\* step 3 without its try block: an exception of search_organisation
\* leaves the loop body
enrich_organisation_unguarded(holder) ==
    IF holder = "match"
    THEN [err |-> "none", mah_oms_id |-> "O1",
          organizations |-> <<Organization("O1")>>]
    ELSE IF holder = "raises"
    THEN [err |-> "Exception", mah_oms_id |-> "none", organizations |-> <<>>]
    ELSE [err |-> "none", mah_oms_id |-> "none", organizations |-> <<>>]

\* step 3: search_organisation for a record with a holder; an exception is
\* caught and logged
enrich_organisation(holder) ==
    IF holder = "match"
    THEN [err |-> "none", mah_oms_id |-> "O1",
          organizations |-> <<Organization("O1")>>]
    ELSE [err |-> "none", mah_oms_id |-> "none", organizations |-> <<>>]

RECURSIVE enrich_substances(_, _, _)
\* step 4: the loop over the names from position k on, each search in a try
\* block of its own
enrich_substances(epar_id, names, k) ==
    IF k > Len(names)
    THEN [substance_links |-> <<>>, substances |-> <<>>]
    ELSE LET rest == enrich_substances(epar_id, names, k + 1)
         IN  IF names[k] = "match"
             THEN [substance_links |->
                       <<EparSubstanceLink(epar_id, SmsId(k))>>
                           \o rest.substance_links,
                   substances |-> <<Substance(SmsId(k))>> \o rest.substances]
             ELSE rest

\* the body of the loop of transform_and_validate for one raw record: the
\* tuples it yields and the exception that leaves the generator
transform_record(raw_record) ==
    IF raw_record.product_number = "none" \/ ~raw_record.valid
    THEN [yielded |-> <<>>, err |-> "none"]
    ELSE LET org == enrich_organisation(raw_record.holder)
             sub == enrich_substances(raw_record.product_number,
                                      raw_record.names, 1)
         IN  IF org.err # "none"
             THEN [yielded |-> <<>>, err |-> org.err]
             ELSE [yielded |->
                      <<[epar |-> [epar_id |-> raw_record.product_number,
                                   mah_oms_id |-> org.mah_oms_id],
                         substance_links |-> sub.substance_links,
                         organizations |-> org.organizations,
                         substances |-> sub.substances]>>,
                   err |-> "none"]

InitTransform ==
    /\ loc = [records |-> <<>>, yielded |-> <<>>, positions |-> <<>>]
    /\ pc = "transforming"
    /\ db = New(EmptyDb)
    /\ calls = <<>>
    /\ exc = NoException
    /\ raised = NoException
    /\ hist = InitHist

\* the generator takes the next raw record
TransformRecord(raw_record) ==
    /\ pc = "transforming"
    /\ Len(loc.records) < MaxRows
    /\ LET t == transform_record(raw_record)
           i == Len(loc.records) + 1
       IN  /\ loc' = [records |-> Append(loc.records, raw_record),
                      yielded |-> loc.yielded \o t.yielded,
                      positions |-> IF t.yielded = <<>> THEN loc.positions
                                    ELSE Append(loc.positions, i)]
           /\ pc' = IF t.err # "none" THEN "transform_raised"
                    ELSE "transforming"
           /\ exc' = IF t.err # "none"
                     THEN Exception(t.err, "transform_and_validate",
                                    "search_organisation")
                     ELSE exc
    /\ UNCHANGED <<db, calls, raised, hist>>

\* the input is exhausted
TransformEnd ==
    /\ pc = "transforming"
    /\ pc' = "transformed"
    /\ UNCHANGED <<db, loc, calls, exc, raised, hist>>

NextTransform ==
    \/ \E raw_record \in InputRecords : TransformRecord(raw_record)
    \/ TransformEnd

SpecTransform == InitTransform /\ [][NextTransform]_vars

\* the positions of the names of a record whose lookup returned an entity
Matched(raw_record) ==
    {k \in 1 .. Len(raw_record.names) : raw_record.names[k] = "match"}

Cleanings == {"ok", "no_date", "bad_date", "bad_auth_date", "no_substance"}

SourceRows ==
    [product_number : EparIds, revision_date : Dates, cleaning : Cleanings]

\* step 3 of run_etl: the cursor of a DELTA run is the one of the ledger, a
\* FULL run has none
high_water_mark_of(cm, load_strategy) ==
    IF load_strategy = "DELTA"
    THEN get_latest_high_water_mark(connect(New(cm))).ret
    ELSE None

\* the body of the loop of extract_data for one row of the parser: the
\* rows it does not skip while cleaning go through the CDC filter
extract_row(row, high_water_mark) ==
    IF row.cleaning # "ok" THEN <<>>
    ELSE extract_data(row, high_water_mark)

InitExtract ==
    /\ \E cm \in Seeds, load_strategy \in Strategies :
          /\ loc = [load_strategy |-> load_strategy,
                    high_water_mark |-> high_water_mark_of(cm, load_strategy),
                    rows |-> <<>>, yielded |-> <<>>, positions |-> <<>>]
          /\ hist = [InitHist EXCEPT !.pre = cm]
          /\ db = New(cm)
    /\ pc = "extracting"
    /\ calls = <<>>
    /\ exc = NoException
    /\ raised = NoException

\* the generator takes the next row of the parser
ExtractRow(row) ==
    /\ pc = "extracting"
    /\ Len(loc.rows) < MaxSrc
    /\ LET y == extract_row(row, loc.high_water_mark)
       IN  loc' = [loc EXCEPT
                     !.rows = Append(loc.rows, row),
                     !.yielded = loc.yielded \o y,
                     !.positions = IF y = <<>> THEN loc.positions
                                   ELSE Append(loc.positions,
                                               Len(loc.rows) + 1)]
    /\ UNCHANGED <<db, pc, calls, exc, raised, hist>>

\* the parser is exhausted
ExtractEnd ==
    /\ pc = "extracting"
    /\ pc' = "extracted"
    /\ UNCHANGED <<db, loc, calls, exc, raised, hist>>

NextExtract ==
    \/ \E row \in SourceRows : ExtractRow(row)
    \/ ExtractEnd

SpecExtract == InitExtract /\ [][NextExtract]_vars

\* the SUCCESS rows of strategy DELTA of a committed ledger that carry a
\* high-water-mark
EligibleIn(cm) ==
    {i \in 1 .. Len(cm.pipeline_execution) :
        /\ cm.pipeline_execution[i].status = "SUCCESS"
        /\ cm.pipeline_execution[i].load_strategy = "DELTA"
        /\ cm.pipeline_execution[i].high_water_mark # None}

\* C39: a FULL run, and a DELTA run on a ledger without a SUCCESS row of
\* strategy DELTA that carries a mark, hands extract_data no cursor; the
\* records yielded are the rows consumed that extract_data can clean and,
\* when there is a cursor, whose revision date is after the day of the
\* cursor, each once, unchanged and in source order
C39_ExtractFiltersByCursor ==
    /\ (loc.load_strategy = "FULL" \/ EligibleIn(hist.pre) = {})
          => loc.high_water_mark = None
    /\ loc.positions =
          SeqOfSet({i \in 1 .. Len(loc.rows) :
                       /\ loc.rows[i].cleaning = "ok"
                       /\ loc.high_water_mark # None =>
                             loc.rows[i].revision_date > loc.high_water_mark.d})
    /\ loc.yielded = [k \in 1 .. Len(loc.positions) |-> loc.rows[loc.positions[k]]]

\* a DELTA run with a cursor has read a row dated as the cursor, which it
\* dropped, and a row dated after it, which it yielded
C39_Witness ==
    /\ pc = "extracted"
    /\ loc.high_water_mark # None
    /\ Len(loc.rows) = 2
    /\ loc.rows[1].cleaning = "ok"
    /\ loc.rows[1].revision_date = loc.high_water_mark.d
    /\ loc.rows[2].cleaning = "ok"
    /\ loc.rows[2].revision_date > loc.high_water_mark.d
    /\ loc.positions = <<2>>

(***************************************************************************)
(* SporApiClient on its own: searches on one client.  What the API does    *)
(* for a search is an input of the search: "E1" or "E2" it answers with    *)
(* that one entity, "no_match" with no item, "ambiguous" with two,         *)
(* "fails" every attempt of the request fails.                             *)
(*   loc   the client: _org_cache, _substance_cache (a name that is not a  *)
(*         key is "unset", a name cached as None is "None") and whether    *)
(*         it holds a token                                                *)
(*   hist  answered: for each endpoint and name the result of the first    *)
(*         search that got a response; last: the last search, what         *)
(*         answered held for it, what it returned and the requests it      *)
(*         issued on the endpoint                                          *)
(***************************************************************************)
SporNames == {"n1", "n2"}
Endpoints == {"organisation", "substance"}
Entities == {"E1", "E2"}
Responses == Entities \cup {"no_match", "ambiguous", "fails"}
\* stop_after_attempt of _make_request
Attempts == 4

NoCache == [n \in SporNames |-> "unset"]

\* the search with an except clause that caches None
search_caching_failure(cache, name, response, attempts) ==
    IF cache[name] # "unset"
    THEN [cache |-> cache, ret |-> cache[name], requests |-> 0]
    ELSE IF response = "fails"
    THEN [cache |-> [cache EXCEPT ![name] = "None"], ret |-> "None",
          requests |-> Attempts]
    ELSE LET result == IF response \in Entities THEN response ELSE "None"
         IN  [cache |-> [cache EXCEPT ![name] = result], ret |-> result,
              requests |-> attempts]

\* the body search_organisation and search_substance share, on the cache
\* of the endpoint: the cache test, the request with its retries, the
\* result that is cached, the except clause
search(cache, name, response, attempts) ==
    IF cache[name] # "unset"
    THEN [cache |-> cache, ret |-> cache[name], requests |-> 0]
    ELSE IF response = "fails"
    THEN [cache |-> cache, ret |-> "None", requests |-> Attempts]
    ELSE LET result == IF response \in Entities THEN response ELSE "None"
         IN  [cache |-> [cache EXCEPT ![name] = result], ret |-> result,
              requests |-> attempts]

\* the cache an endpoint uses
CacheOf(client, endpoint) ==
    IF endpoint = "organisation" THEN client.org_cache
    ELSE client.substance_cache

\* search_organisation / search_substance: _authenticate comes after the
\* cache test and before the try block, so that its exception leaves the
\* search
search_endpoint(client, endpoint, name, authenticates, response, attempts) ==
    LET cache == CacheOf(client, endpoint)
    IN  IF cache[name] = "unset" /\ ~client.auth_token /\ ~authenticates
        THEN [client |-> client, ret |-> "None", requests |-> 0,
              err |-> "requests.RequestException"]
        ELSE LET s == search(cache, name, response, attempts)
                 token == client.auth_token \/ cache[name] = "unset"
             IN  [client |->
                      IF endpoint = "organisation"
                      THEN [client EXCEPT !.org_cache = s.cache,
                                          !.auth_token = token]
                      ELSE [client EXCEPT !.substance_cache = s.cache,
                                          !.auth_token = token],
                  ret |-> s.ret, requests |-> s.requests, err |-> "none"]

NoSearch ==
    [endpoint |-> "none", name |-> "none", response |-> "none",
     before |-> "unset", ret |-> "None", requests |-> 0, err |-> "none"]

InitSpor ==
    /\ loc = [org_cache |-> NoCache, substance_cache |-> NoCache,
              auth_token |-> FALSE]
    /\ hist = [answered |-> [e \in Endpoints |-> NoCache], last |-> NoSearch]
    /\ pc = "client"
    /\ db = New(EmptyDb)
    /\ calls = <<>>
    /\ exc = NoException
    /\ raised = NoException

Search(endpoint, name, authenticates, response, attempts) ==
    /\ pc = "client"
    /\ LET s == search_endpoint(loc, endpoint, name, authenticates, response,
                                attempts)
           got == s.err = "none" /\ s.requests > 0 /\ response # "fails"
       IN  /\ loc' = s.client
           /\ hist' = [answered |->
                          IF got /\ hist.answered[endpoint][name] = "unset"
                          THEN [hist.answered EXCEPT ![endpoint][name] = s.ret]
                          ELSE hist.answered,
                       last |-> [endpoint |-> endpoint, name |-> name,
                                 response |-> response,
                                 before |-> hist.answered[endpoint][name],
                                 ret |-> s.ret, requests |-> s.requests,
                                 err |-> s.err]]
    /\ UNCHANGED <<db, pc, calls, exc, raised>>

NextSpor ==
    \E endpoint \in Endpoints, name \in SporNames, authenticates \in BOOLEAN,
       response \in Responses, attempts \in 1 .. Attempts :
        Search(endpoint, name, authenticates, response, attempts)

SpecSpor == InitSpor /\ [][NextSpor]_vars

\* C40: a search for a name an earlier search on the endpoint got a
\* response for returns what that search returned and issues no request,
\* whatever the API would answer now; a search for a name without such a
\* response, once the client is authenticated, issues at least one request;
\* when every attempt of it fails it returns None and the name is still
\* without a response, and otherwise it returns the one entity of the
\* response, or None for no match and for an ambiguous match
C40_SearchCached ==
    hist.last.endpoint # "none" =>
        LET l == hist.last
        IN  /\ l.before # "unset" =>
                  /\ l.ret = l.before
                  /\ l.requests = 0
                  /\ l.err = "none"
            /\ (l.before = "unset" /\ l.err = "none") =>
                  /\ l.requests >= 1
                  /\ l.response = "fails" =>
                        /\ l.ret = "None"
                        /\ l.requests = Attempts
                        /\ hist.answered[l.endpoint][l.name] = "unset"
                  /\ l.response \in Entities => l.ret = l.response
                  /\ l.response \in {"no_match", "ambiguous"} => l.ret = "None"
                  /\ l.response # "fails" =>
                        hist.answered[l.endpoint][l.name] = l.ret

\* a search for a name that an ambiguous match was cached for, while the
\* API would answer with one entity now and the other endpoint has cached
\* an entity for the same name
C40_Witness ==
    /\ hist.last.endpoint = "organisation"
    /\ hist.last.before = "None"
    /\ hist.last.response = "E1"
    /\ hist.last.ret = "None"
    /\ hist.last.requests = 0
    /\ loc.substance_cache[hist.last.name] = "E2"

====
